---- MODULE Spec2Model ----
(***************************************************************************)
(* State-machine model of the TikTok crawler (src/app):                    *)
(*   - the sequential crawl engine, SequentialTikTokCrawler                *)
(*     (playwright_crawler.py): start_browser / close_browser,             *)
(*     crawl_single with its retry and crash handling, crawl_all with the  *)
(*     end-of-run retry waves;                                             *)
(*   - the blocking wrapper crawl_batch_sync / _run_in_thread;             *)
(*   - the sheet reconciliation, GoogleSheetsClient.batch_update_records   *)
(*     (sheets_client.py) fed by TikTokCrawler.process_lark_record         *)
(*     (crawler.py).                                                       *)
(* Optional values (Python None) are tuples: <<>> is None, <<x>> is x.     *)
(* Strings the code only tests by pattern are drawn from small pools and   *)
(* the patterns are tables over the pool.                                  *)
(***************************************************************************)
EXTENDS Integers, Sequences, FiniteSets, TLC

VARIABLES
  \* ---- crawl engine (SequentialTikTokCrawler) ----
  urls,                 \* crawl_all argument: list of raw URLs
  existing_dates,       \* crawl_all argument: raw URL -> ledger publish date
  site,                 \* the web site: URL -> the ways a page load of it can fail
  faults_left,          \* browser faults (failed launch, failed close) still to come
  playwright,           \* self.playwright is set (driver handle)
  browser,              \* self.browser is set
  context,              \* self.context is set
  browser_type,         \* self.browser_type
  videos_since_restart, \* self.videos_since_restart
  consecutive_crashes,  \* self.consecutive_crashes
  total_crashes,        \* self.total_crashes
  failed_urls,          \* self.failed_urls
  results,              \* crawl_all's local list `results`
  pc,                   \* position of the crawl coroutine
  ret,                  \* position start_browser returns to
  start_type,           \* argument of the pending start_browser call
  started,              \* value returned by the last start_browser call
  phase,                \* "none" | "first" | "retry" | "firefox": the loop calling crawl_single
  idx,                  \* loop index of the current loop (1-based)
  retry_urls,           \* list iterated by the current retry wave
  firefox_results,      \* retry_failed_with_firefox's local list `results`
  url,                  \* crawl_single's argument `url` of the current frame
  existing_date,        \* crawl_single's argument `existing_publish_date`
  retry_count,          \* crawl_single's argument `retry_count` of the current frame
  first_retry_count,    \* `retry_count` argument of the top-level crawl_single call
  error_msg,            \* message of the exception being handled
  ret_val,              \* the dict crawl_single returns to its caller
  attempts,             \* page loads tried since the top-level crawl_single call
  starts,               \* start_browser calls since the top-level crawl_single call
  seen,                 \* outcomes of those page loads
  extracted,            \* publish date extract_video_data returned to the frame
  close_timeout,        \* the close_browser call that ended the last wave timed out
  \* ---- blocking wrapper (TikTokPlaywrightCrawler) ----
  \* (the worker thread runs crawl_all: its state is the crawl engine's)
  caller,               \* position of the thread that called crawl_batch_sync
  timer,                \* whether future.result's timeout has elapsed
  partial,              \* the worker's results at the moment the timeout elapsed
  batch_result,         \* what crawl_batch_sync returned
  job_result,           \* the dict crawl_all_videos returned
  \* ---- sheet reconciliation (GoogleSheetsClient) ----
  sheet,                \* data rows of the worksheet (row i is sheet row i+1)
  last_records,         \* `records` argument of the last batch_update_records
  last_io,              \* outcomes of the sheet API calls of that run
  runs,                 \* number of batch_update_records runs so far
  \* ---- job triggers (main.py) ----
  jobs,                 \* the background tasks started by the trigger endpoints
  \* ---- helper functions called on their own ----
  arg,                  \* the argument of the call
  value,                \* what the call returned
  utc_offset            \* the local time of the process, in seconds east of UTC

crawlVars == <<urls, existing_dates, site, faults_left, playwright, browser, context, browser_type,
               videos_since_restart, consecutive_crashes, total_crashes,
               failed_urls, results, pc, ret, start_type, started, phase, idx,
               retry_urls, firefox_results, url, existing_date, retry_count,
               first_retry_count,
               error_msg, ret_val, attempts, starts, seen, extracted,
               close_timeout>>
batchVars == <<caller, timer, partial, batch_result, job_result>>
sheetVars == <<sheet, last_records, last_io, runs>>
jobVars == <<jobs>>
helperVars == <<arg, value, utc_offset>>
vars == <<crawlVars, batchVars, sheetVars, jobVars, helperVars>>

None == <<>>
Some(x) == <<x>>

\* ------------------------------------------------------------------------
\* Bounds of the model
\* ------------------------------------------------------------------------
MaxUrls == 2
MaxFaults == 1
MaxJobs == 2

\* ------------------------------------------------------------------------
\* CrawlerConfig
\* ------------------------------------------------------------------------
max_retries == 3
restart_browser_every == 75
max_consecutive_crashes == 5

\* ------------------------------------------------------------------------
\* Dates.  The strings that occur as publish dates are "", "2024-01-15",
\* "2024-03-01" and "2024-13-45"; the format tests of the code are tables
\* over them.
\* ------------------------------------------------------------------------

\* datetime.strptime(s, '%Y-%m-%d') succeeds
StrptimeYMD(s) == s \in {"2024-01-15", "2024-03-01"}

is_valid_publish_date(d) ==
  IF d = None THEN FALSE
  ELSE LET s == d[1] IN
       IF s \in {"", "None", "null", "N/A", "-"} THEN FALSE
       ELSE StrptimeYMD(s)

\* ------------------------------------------------------------------------
\* URLs.  A URL is the record of the features validate_tiktok_url reads:
\*   scheme : the text starts with 'http'
\*   host   : the network location ("" for the empty string)
\*   path   : "video_id"  .../video/<digits>
\*            "video_noid" .../video/ without digits
\*            "profile"   /@user only
\*            "none"      no path
\*   vid    : the video id
\* ------------------------------------------------------------------------
EmptyUrl == [scheme |-> FALSE, host |-> "", path |-> "none", vid |-> 0]
VideoUrl(n) == [scheme |-> TRUE, host |-> "www.tiktok.com", path |-> "video_id", vid |-> n]
BareVideoUrl(n) == [scheme |-> FALSE, host |-> "www.tiktok.com", path |-> "video_id", vid |-> n]
ProfileUrl == [scheme |-> TRUE, host |-> "www.tiktok.com", path |-> "profile", vid |-> 0]

UrlPool == {VideoUrl(1), BareVideoUrl(2), ProfileUrl}

valid_domains == {"tiktok.com", "www.tiktok.com", "vt.tiktok.com", "m.tiktok.com", "vm.tiktok.com"}

validate_tiktok_url(u) ==
  IF u = EmptyUrl THEN [ok |-> FALSE, url |-> u, reason |-> "Empty URL"]
  ELSE IF u.host \notin valid_domains
    THEN [ok |-> FALSE, url |-> u, reason |-> "Not a TikTok URL"]
  ELSE LET cleaned == [u EXCEPT !.scheme = TRUE] IN
    IF u.path = "video_noid"
      THEN [ok |-> FALSE, url |-> u, reason |-> "Cannot extract video ID"]
    ELSE IF u.path = "profile" /\ u.host \notin {"vt.tiktok.com", "vm.tiktok.com"}
      THEN [ok |-> FALSE, url |-> u, reason |-> "Profile URL, not video"]
    ELSE [ok |-> TRUE, url |-> cleaned, reason |-> ""]

\* existing_dates.get(url, '')
DateOf(dates, u) == IF u \in DOMAIN dates THEN dates[u] ELSE Some("")

\* ------------------------------------------------------------------------
\* Exception messages and the two keyword tests of crawl_single
\* ------------------------------------------------------------------------
ErrorMsgs == {"No data extracted", "Target closed", "net::ERR_FAILED", "Video unavailable"}

\* the ways a page load fails: PlaywrightTimeout, no data extracted, or an
\* exception with one of the other messages
FailKinds == {"timeout", "nodata", "crash", "error", "gone"}

KindOf(msg) ==
  CASE msg = "No data extracted" -> "nodata"
    [] msg = "Target closed" -> "crash"
    [] msg = "net::ERR_FAILED" -> "error"
    [] msg = "Video unavailable" -> "gone"

\* any(x in msg for x in ['closed', 'target', 'crashed', 'disconnected'])
IsCrashMsg(msg) == msg \in {"Target closed"}

\* any(x in msg for x in ['not found', 'unavailable', 'removed', '404', 'no data'])
IsBrokenMsg(msg) == msg \in {"No data extracted", "Video unavailable"}


\* ------------------------------------------------------------------------
\* Results of crawl_single.  The dict's likes / comments / shares carry no
\* decision anywhere and follow views (None on every failure); they are
\* left out.
\* ------------------------------------------------------------------------
Result(u, ok, v, d, e, b) ==
  [url |-> u, success |-> ok, views |-> v, publish_date |-> d, error |-> e, is_broken |-> b]

\* existing_publish_date if is_valid_publish_date(existing_publish_date) else None
PreservedDate(existing) == IF is_valid_publish_date(existing) THEN existing ELSE None

\* faulty variant of InvalidUrlResult: the rejected URL is not marked broken
InvalidUrlResultNotBroken(u, reason) == Result(u, FALSE, None, None, reason, FALSE)

InvalidUrlResult(u, reason) == Result(u, FALSE, None, None, reason, TRUE)
\* faulty variant of CrashLimitResult: the skipped URL loses its ledger date
CrashLimitResultClearingDate(u, existing) ==
  Result(u, FALSE, None, None, "Too many consecutive crashes", TRUE)

CrashLimitResult(u, existing) ==
  Result(u, FALSE, None, PreservedDate(existing), "Too many consecutive crashes", FALSE)
StartFailedResult(u, existing) ==
  Result(u, FALSE, None, PreservedDate(existing), "Browser failed to start", FALSE)
\* faulty variant of TimeoutResult: the broken result keeps a view count
TimeoutResultWithViews(u) == Result(u, FALSE, Some(0), None, "Timeout", TRUE)

TimeoutResult(u) == Result(u, FALSE, None, None, "Timeout", TRUE)

\* faulty variant of FinalPublishDate: the extracted date comes first
FinalPublishDateExtractedFirst(existing, new_date) ==
  IF is_valid_publish_date(new_date) THEN new_date
  ELSE IF is_valid_publish_date(existing) THEN existing
  ELSE None

\* v3.2 publish-date handling of a successful extraction
FinalPublishDate(existing, new_date) ==
  IF is_valid_publish_date(existing) THEN existing
  ELSE IF is_valid_publish_date(new_date) THEN new_date
  ELSE None

SuccessResult(u, existing, data) ==
  Result(u, TRUE, Some(data.views), FinalPublishDate(existing, data.publish_date), "", FALSE)

\* faulty variant of FailureResult: the exhausted call reports success
FailureResultReportingSuccess(u, existing, msg) ==
  Result(u, TRUE, None, PreservedDate(existing), msg, FALSE)

\* the result built once retries are exhausted in `except Exception`
FailureResult(u, existing, msg) ==
  IF IsBrokenMsg(msg)
    THEN Result(u, FALSE, None, None, msg, TRUE)
    ELSE Result(u, FALSE, None, PreservedDate(existing), msg, FALSE)

\* what extract_video_data can return with views > 0
ExtractedData == {[views |-> 5000, publish_date |-> d] : d \in {None, Some("2024-03-01")}}

\* faulty variant of RetryAllowed: `<=` for `<`
RetryAllowedOffByOne(rc) == rc <= max_retries

\* `retry_count < self.config.max_retries`, the test of all three retry branches
RetryAllowed(rc) == rc < max_retries

\* ------------------------------------------------------------------------
\* close_browser / start_browser
\* ------------------------------------------------------------------------
Handles == {"context", "browser", "playwright"}

\* lines 557-577: _close() awaits the close of each handle that is set, in
\* this order, each inside its own `try: ... except: pass`
CloseOrder == <<"context", "browser", "playwright">>

Rank(h) == CHOOSE i \in 1..Len(CloseOrder) : CloseOrder[i] = h

\* What one awaited close()/stop() does: it completes, it raises, or it does
\* not complete before it is cancelled.
CloseSteps == {"ok", "raise", "hang"}

\* An outcome of close_browser: what the close of each handle does, and
\* whether wait_for raises TimeoutError after a timeout that _close() has
\* outlived.  wait_for cancels _close() when browser_close_timeout expires
\* and then waits for it to finish.  The cancellation is raised inside the
\* pending close and the bare `except:` of lines 562, 569, 576 swallows it,
\* so _close() carries on with the next handle.  When _close() then finishes
\* normally, wait_for raises TimeoutError (Python up to 3.10) or returns
\* the result (Python 3.11 and later): `forced` is that choice.
CloseOutcome(c, b, p, forced) ==
  [step |-> [h \in Handles |->
               CASE h = "context" -> c [] h = "browser" -> b [] h = "playwright" -> p],
   forced |-> forced]

CloseOk == CloseOutcome("ok", "ok", "ok", FALSE)

\* the outcomes explored: a clean close, a raising context, three raising
\* closes, a context that hangs (with either behaviour of wait_for), and a
\* context and a browser that both hang
CloseOutcomes ==
  {CloseOk,
   CloseOutcome("raise", "ok", "ok", FALSE),
   CloseOutcome("raise", "raise", "raise", FALSE),
   CloseOutcome("hang", "ok", "ok", FALSE),
   CloseOutcome("hang", "ok", "ok", TRUE),
   CloseOutcome("hang", "hang", "ok", FALSE)}

\* the closes that do not complete, given which handles are set
Hung(set, co) == {h \in Handles : set[h] /\ co.step[h] = "hang"}

\* line 580: the timeout of wait_for expires
TimedOut(set, co) == Hung(set, co) # {}

\* a second close that does not complete is never cancelled: wait_for is
\* waiting for _close() without a timeout, and close_browser never returns
Blocked(set, co) == Cardinality(Hung(set, co)) >= 2

\* the handle at which _close() stays when Blocked
BlockedAt(set, co) ==
  CHOOSE h \in Hung(set, co) :
    Cardinality({g \in Hung(set, co) : Rank(g) < Rank(h)}) = 1

\* lines 581-585: the `except asyncio.TimeoutError` branch runs
ForceDropped(set, co) == TimedOut(set, co) /\ ~Blocked(set, co) /\ co.forced

\* The environment injects at most faults_left browser faults; a call in
\* which a launch or a close fails uses one up.  Unlimited: no such limit.
Unlimited == 0 - 1

MayFail(faulty) == faulty => faults_left # 0

FaultsAfter(faulty) ==
  IF faulty /\ faults_left > 0 THEN faults_left - 1 ELSE faults_left

\* value of handle h after close_browser (or at the point where it stays),
\* given the values `set` of the handles before: a handle is set to None
\* only after its close has completed (lines 560, 567, 574) or in the
\* TimeoutError branch (lines 583-585)
Closed(h, set, co) ==
  CASE ForceDropped(set, co) -> FALSE
    [] Blocked(set, co) /\ Rank(h) >= Rank(BlockedAt(set, co)) -> set[h]
    [] OTHER -> set[h] /\ co.step[h] # "ok"

\* the values of the three handles
HandlesSet == [h \in Handles |->
                 CASE h = "context" -> context
                   [] h = "browser" -> browser
                   [] h = "playwright" -> playwright]

\* Where start_browser's try block can raise
LaunchOutcomes == {"ok", "fail_driver", "fail_launch", "fail_context", "fail_script"}

AfterStart(h, set, co, lo) ==
  CASE lo = "ok" -> TRUE
    [] lo = "fail_script" -> TRUE
    [] lo = "fail_context" -> IF h = "context" THEN Closed(h, set, co) ELSE TRUE
    [] lo = "fail_launch" -> IF h = "playwright" THEN TRUE ELSE Closed(h, set, co)
    [] lo = "fail_driver" -> Closed(h, set, co)

\* a close_browser call in which some close does not complete normally
CloseFaulty(set, co) == \E h \in Handles : set[h] /\ co.step[h] # "ok"

\* faulty variant of CrashesAfterStart: a start leaves the crash count alone
CrashesAfterStartKept(lo) == consecutive_crashes

\* line 547: a successful start resets self.consecutive_crashes
CrashesAfterStart(lo) == IF lo = "ok" THEN 0 ELSE consecutive_crashes

\* lines 490-553.  The call stays in close_browser (line 492) when that
\* never returns.
StartBrowser ==
  /\ pc = "start_browser"
  /\ \E co \in CloseOutcomes, lo \in LaunchOutcomes :
       /\ MayFail(CloseFaulty(HandlesSet, co) \/ lo # "ok")
       /\ faults_left' = FaultsAfter(CloseFaulty(HandlesSet, co) \/ lo # "ok")
       /\ IF Blocked(HandlesSet, co)
            THEN /\ context' = Closed("context", HandlesSet, co)
                 /\ browser' = Closed("browser", HandlesSet, co)
                 /\ playwright' = Closed("playwright", HandlesSet, co)
                 /\ pc' = "blocked"
                 /\ UNCHANGED <<browser_type, videos_since_restart, consecutive_crashes, started>>
            ELSE /\ context' = AfterStart("context", HandlesSet, co, lo)
                 /\ browser' = AfterStart("browser", HandlesSet, co, lo)
                 /\ playwright' = AfterStart("playwright", HandlesSet, co, lo)
                 /\ browser_type' = start_type
                 /\ videos_since_restart' = IF lo = "ok" THEN 0 ELSE videos_since_restart
                 /\ consecutive_crashes' = CrashesAfterStart(lo)
                 /\ started' = (lo = "ok")
                 /\ pc' = ret
  /\ starts' = starts + 1
  /\ UNCHANGED <<urls, existing_dates, site, total_crashes, failed_urls, results,
                 ret, start_type, phase, idx, retry_urls, firefox_results, url,
                 existing_date, retry_count, first_retry_count, error_msg, ret_val,
                 attempts, seen, extracted, close_timeout, batchVars, sheetVars,
                 jobVars, helperVars>>

\* ------------------------------------------------------------------------
\* crawl_single, one frame of the recursion at a time
\* ------------------------------------------------------------------------
\* lines 602-644: validation, crash limit, periodic restart
CrawlSingleEntry ==
  /\ pc = "crawl_single"
  /\ LET v == validate_tiktok_url(url) IN
     IF ~v.ok THEN
       /\ ret_val' = InvalidUrlResult(url, v.reason)
       /\ pc' = "returned"
       /\ UNCHANGED <<url, consecutive_crashes, failed_urls, ret, start_type>>
     ELSE IF consecutive_crashes >= max_consecutive_crashes THEN
       /\ url' = v.url
       /\ failed_urls' = Append(failed_urls, v.url)
       /\ consecutive_crashes' = 0
       /\ ret_val' = CrashLimitResult(v.url, existing_date)
       /\ pc' = "returned"
       /\ UNCHANGED <<ret, start_type>>
     ELSE IF videos_since_restart >= restart_browser_every THEN
       /\ url' = v.url
       /\ pc' = "start_browser"
       /\ start_type' = browser_type
       /\ ret' = "cs_ensure"
       /\ UNCHANGED <<ret_val, consecutive_crashes, failed_urls>>
     ELSE
       /\ url' = v.url
       /\ pc' = "cs_ensure"
       /\ UNCHANGED <<ret_val, consecutive_crashes, failed_urls, ret, start_type>>
  /\ UNCHANGED <<urls, existing_dates, site, faults_left, playwright, browser,
                 context, browser_type, videos_since_restart, total_crashes,
                 results, started, phase, idx, retry_urls, firefox_results,
                 existing_date, retry_count, first_retry_count, error_msg,
                 attempts, starts, seen, extracted, close_timeout, batchVars,
                 sheetVars, jobVars, helperVars>>

\* lines 646-648: `if not self.browser or not self.context`
EnsureBrowser ==
  /\ pc = "cs_ensure"
  /\ started' = FALSE
  /\ IF ~browser \/ ~context
       THEN /\ pc' = "start_browser"
            /\ start_type' = browser_type
            /\ ret' = "cs_ensured"
       ELSE /\ pc' = "cs_try"
            /\ UNCHANGED <<start_type, ret>>
  /\ UNCHANGED <<urls, existing_dates, site, faults_left, playwright, browser,
                 context, browser_type, videos_since_restart, consecutive_crashes,
                 total_crashes, failed_urls, results, phase, idx, retry_urls,
                 firefox_results, url, existing_date, retry_count,
                 first_retry_count, error_msg, ret_val, attempts, starts, seen,
                 extracted, close_timeout, batchVars, sheetVars, jobVars,
                 helperVars>>

\* lines 648-659: the start_browser of the ensure step has returned
EnsureBrowserDone ==
  /\ pc = "cs_ensured"
  /\ started' = FALSE
  /\ IF started
       THEN pc' = "cs_try" /\ UNCHANGED ret_val
       ELSE /\ ret_val' = StartFailedResult(url, existing_date)
            /\ pc' = "returned"
  /\ UNCHANGED <<urls, existing_dates, site, faults_left, playwright, browser,
                 context, browser_type, videos_since_restart, consecutive_crashes,
                 total_crashes, failed_urls, results, ret, start_type, phase, idx,
                 retry_urls, firefox_results, url, existing_date, retry_count,
                 first_retry_count, error_msg, attempts, starts, seen, extracted,
                 close_timeout, batchVars, sheetVars, jobVars, helperVars>>

\* lines 664-726: the page loads and extraction yields views > 0
TrySuccess ==
  /\ pc = "cs_try"
  /\ \E data \in ExtractedData :
       /\ ret_val' = SuccessResult(url, existing_date, data)
       /\ extracted' = data.publish_date
  /\ videos_since_restart' = videos_since_restart + 1
  /\ consecutive_crashes' = 0
  /\ attempts' = attempts + 1
  /\ seen' = seen \cup {"success"}
  /\ pc' = "returned"
  /\ UNCHANGED <<urls, existing_dates, site, faults_left, playwright, browser,
                 context, browser_type, total_crashes, failed_urls, results, ret,
                 start_type, started, phase, idx, retry_urls, firefox_results, url,
                 existing_date, retry_count, first_retry_count, error_msg, starts,
                 close_timeout, batchVars, sheetVars, jobVars, helperVars>>

\* lines 689-695, 727-728: the page loads, extraction yields nothing.  The
\* page may be a not-found or unavailable page, a CAPTCHA page or a page
\* the extraction methods fail on: extract_video_data (lines 417-430) logs
\* which and returns None for each.
TryNoData ==
  /\ pc = "cs_try"
  /\ "nodata" \in site[url]
  /\ videos_since_restart' = videos_since_restart + 1
  /\ consecutive_crashes' = 0
  /\ error_msg' = "No data extracted"
  /\ attempts' = attempts + 1
  /\ seen' = seen \cup {"nodata"}
  /\ pc' = "cs_except"
  /\ UNCHANGED <<urls, existing_dates, site, faults_left, playwright, browser,
                 context, browser_type, total_crashes, failed_urls, results, ret,
                 start_type, started, phase, idx, retry_urls, firefox_results, url,
                 existing_date, retry_count, first_retry_count, ret_val, starts,
                 extracted, close_timeout, batchVars, sheetVars, jobVars,
                 helperVars>>

\* lines 730-752: page.goto raises PlaywrightTimeout
TryTimeout ==
  /\ pc = "cs_try"
  /\ "timeout" \in site[url]
  /\ attempts' = attempts + 1
  /\ seen' = seen \cup {"timeout"}
  /\ IF RetryAllowed(retry_count)
       THEN /\ pc' = "start_browser"
            /\ start_type' = browser_type
            /\ ret' = "cs_recurse"
            /\ UNCHANGED <<failed_urls, ret_val>>
       ELSE /\ failed_urls' = Append(failed_urls, url)
            /\ ret_val' = TimeoutResult(url)
            /\ pc' = "returned"
            /\ UNCHANGED <<start_type, ret>>
  /\ UNCHANGED <<urls, existing_dates, site, faults_left, playwright, browser,
                 context, browser_type, videos_since_restart, consecutive_crashes,
                 total_crashes, results, started, phase, idx, retry_urls,
                 firefox_results, url, existing_date, retry_count,
                 first_retry_count, error_msg, starts, extracted, close_timeout,
                 batchVars, sheetVars, jobVars, helperVars>>

\* lines 664-677, 754: new_page / goto raises another exception
TryError ==
  /\ pc = "cs_try"
  /\ \E msg \in ErrorMsgs \ {"No data extracted"} :
       /\ KindOf(msg) \in site[url]
       /\ error_msg' = msg
       /\ seen' = seen \cup {KindOf(msg)}
  /\ attempts' = attempts + 1
  /\ pc' = "cs_except"
  /\ UNCHANGED <<urls, existing_dates, site, faults_left, playwright, browser,
                 context, browser_type, videos_since_restart, consecutive_crashes,
                 total_crashes, failed_urls, results, ret, start_type, started,
                 phase, idx, retry_urls, firefox_results, url, existing_date,
                 retry_count, first_retry_count, ret_val, starts, extracted,
                 close_timeout, batchVars, sheetVars, jobVars, helperVars>>

\* lines 772-808: retry for other errors, or the final failure result
RetryOrFail ==
  IF RetryAllowed(retry_count)
    THEN /\ pc' = "cs_recurse"
         /\ UNCHANGED <<failed_urls, ret_val>>
    ELSE /\ failed_urls' = Append(failed_urls, url)
         /\ ret_val' = FailureResult(url, existing_date, error_msg)
         /\ pc' = "returned"

\* lines 754-767: `except Exception`; a crash message counts and restarts
HandleException ==
  /\ pc = "cs_except"
  /\ IF IsCrashMsg(error_msg)
       THEN /\ consecutive_crashes' = consecutive_crashes + 1
            /\ total_crashes' = total_crashes + 1
            /\ pc' = "start_browser"
            /\ start_type' = browser_type
            /\ ret' = "cs_crash_restarted"
            /\ UNCHANGED <<failed_urls, ret_val>>
       ELSE /\ RetryOrFail
            /\ UNCHANGED <<consecutive_crashes, total_crashes, start_type, ret>>
  /\ UNCHANGED <<urls, existing_dates, site, faults_left, playwright, browser,
                 context, browser_type, videos_since_restart, results, started,
                 phase, idx, retry_urls, firefox_results, url, existing_date,
                 retry_count, first_retry_count, error_msg, attempts, starts, seen,
                 extracted, close_timeout, batchVars, sheetVars, jobVars,
                 helperVars>>

\* lines 769-808: after the crash restart
AfterCrashRestart ==
  /\ pc = "cs_crash_restarted"
  /\ RetryOrFail
  /\ started' = FALSE
  /\ UNCHANGED <<urls, existing_dates, site, faults_left, playwright, browser,
                 context, browser_type, videos_since_restart, consecutive_crashes,
                 total_crashes, results, ret, start_type, phase, idx, retry_urls,
                 firefox_results, url, existing_date, retry_count,
                 first_retry_count, error_msg, attempts, starts, seen, extracted,
                 close_timeout, batchVars, sheetVars, jobVars, helperVars>>

\* lines 736, 770, 775: `return await self.crawl_single(url, ..., retry_count + 1)`
Recurse ==
  /\ pc = "cs_recurse"
  /\ retry_count' = retry_count + 1
  /\ error_msg' = ""
  /\ started' = FALSE
  /\ pc' = "crawl_single"
  /\ UNCHANGED <<urls, existing_dates, site, faults_left, playwright, browser,
                 context, browser_type, videos_since_restart, consecutive_crashes,
                 total_crashes, failed_urls, results, ret, start_type, phase, idx,
                 retry_urls, firefox_results, url, existing_date,
                 first_retry_count, ret_val, attempts, starts, seen, extracted,
                 close_timeout, batchVars, sheetVars, jobVars, helperVars>>


\* ------------------------------------------------------------------------
\* crawl_all and retry_failed_with_firefox
\* ------------------------------------------------------------------------
\* first index i with results[i]['url'] == u and not results[i]['success'], or 0
FirstFailedIndex(rs, u) ==
  LET hits == {i \in 1..Len(rs) : rs[i].url = u /\ ~rs[i].success} IN
  IF hits = {} THEN 0 ELSE CHOOSE i \in hits : \A j \in hits : i <= j

\* list.remove(u): drops the first occurrence
RemoveFirst(seq, u) ==
  LET hits == {i \in 1..Len(seq) : seq[i] = u} IN
  IF hits = {} THEN seq
  ELSE LET k == CHOOSE i \in hits : \A j \in hits : i <= j IN
       [i \in 1..(Len(seq) - 1) |-> IF i < k THEN seq[i] ELSE seq[i + 1]]

\* faulty variant of StoreRetry: the successful retry is appended
StoreRetryAppending(rs, i, new_result) ==
  IF new_result.success THEN Append(rs, new_result) ELSE rs

\* faulty variant of StoreRetry: the retry wave stores whatever the retry
\* returned
StoreRetryAlways(rs, i, new_result) ==
  IF i = 0 THEN rs ELSE [rs EXCEPT ![i] = new_result]

\* lines 933-942: the retry wave stores a result only when it succeeded
StoreRetry(rs, i, new_result) ==
  IF new_result.success THEN [rs EXCEPT ![i] = new_result] ELSE rs

\* lines 950-954: each Firefox result replaces the first failed entry of its URL
RECURSIVE MergeFirefox(_, _)
MergeFirefox(rs, fx) ==
  IF fx = <<>> THEN rs
  ELSE LET i == FirstFailedIndex(rs, Head(fx).url) IN
       MergeFirefox(IF i = 0 THEN rs ELSE [rs EXCEPT ![i] = Head(fx)], Tail(fx))

\* the handles after a close_browser call outside start_browser
CloseBrowser(co) ==
  /\ MayFail(CloseFaulty(HandlesSet, co))
  /\ faults_left' = FaultsAfter(CloseFaulty(HandlesSet, co))
  /\ close_timeout' = TimedOut(HandlesSet, co)
  /\ context' = Closed("context", HandlesSet, co)
  /\ browser' = Closed("browser", HandlesSet, co)
  /\ playwright' = Closed("playwright", HandlesSet, co)

\* lines 857-881: crawl_all resets the run state and starts the browser
CrawlAll ==
  /\ pc = "crawl_all"
  /\ failed_urls' = <<>>
  /\ consecutive_crashes' = 0
  /\ total_crashes' = 0
  /\ pc' = "start_browser"
  /\ start_type' = "chromium"
  /\ ret' = "ca_started"
  /\ UNCHANGED <<urls, existing_dates, site, faults_left, playwright, browser,
                 context, browser_type, videos_since_restart, results, started,
                 phase, idx, retry_urls, firefox_results, url, existing_date,
                 retry_count, first_retry_count, error_msg, ret_val, attempts,
                 starts, seen, extracted, close_timeout, batchVars, sheetVars,
                 jobVars, helperVars>>

\* lines 881-885: `if not await self.start_browser(): return []`
FirstPassStarted ==
  /\ pc = "ca_started"
  /\ started' = FALSE
  /\ IF started
       THEN /\ pc' = "first_loop"
            /\ phase' = "first"
            /\ idx' = 1
       ELSE /\ pc' = "done"
            /\ UNCHANGED <<phase, idx>>
  /\ results' = <<>>
  /\ UNCHANGED <<urls, existing_dates, site, faults_left, playwright, browser,
                 context, browser_type, videos_since_restart, consecutive_crashes,
                 total_crashes, failed_urls, ret, start_type, retry_urls,
                 firefox_results, url, existing_date, retry_count,
                 first_retry_count, error_msg, ret_val, attempts, starts, seen,
                 extracted, close_timeout, batchVars, sheetVars, jobVars,
                 helperVars>>

\* enter a top-level crawl_single call
Call(u, rc) ==
  /\ url' = u
  /\ existing_date' = DateOf(existing_dates, u)
  /\ retry_count' = rc
  /\ first_retry_count' = rc
  /\ attempts' = 0
  /\ starts' = 0
  /\ seen' = {}
  /\ pc' = "crawl_single"

\* lines 888-909: the first pass calls crawl_single for the next URL
FirstPassCall ==
  /\ pc = "first_loop"
  /\ idx <= Len(urls)
  /\ Call(urls[idx], 0)
  /\ UNCHANGED <<urls, existing_dates, site, faults_left, playwright, browser,
                 context, browser_type, videos_since_restart, consecutive_crashes,
                 total_crashes, failed_urls, results, ret, start_type, started,
                 phase, idx, retry_urls, firefox_results, error_msg, ret_val,
                 extracted, close_timeout, batchVars, sheetVars, jobVars,
                 helperVars>>

\* lines 916-917: the loop is over, `finally: await self.close_browser()`
FirstPassEnd ==
  /\ pc = "first_loop"
  /\ idx > Len(urls)
  /\ \E co \in CloseOutcomes :
       /\ CloseBrowser(co)
       /\ pc' = IF Blocked(HandlesSet, co) THEN "blocked" ELSE "retry_check"
  /\ UNCHANGED <<urls, existing_dates, site, browser_type, videos_since_restart,
                 consecutive_crashes, total_crashes, failed_urls, results, ret,
                 start_type, started, phase, idx, retry_urls, firefox_results, url,
                 existing_date, retry_count, first_retry_count, error_msg, ret_val,
                 attempts, starts, seen, extracted, batchVars, sheetVars, jobVars,
                 helperVars>>

\* lines 920-930: `if self.config.retry_failed_at_end and self.failed_urls`
RetryCheck ==
  /\ pc = "retry_check"
  /\ IF failed_urls # <<>>
       THEN /\ retry_urls' = failed_urls
            /\ failed_urls' = <<>>
            /\ consecutive_crashes' = 0
            /\ pc' = "start_browser"
            /\ start_type' = "chromium"
            /\ ret' = "retry_started"
       ELSE /\ pc' = "done"
            /\ UNCHANGED <<retry_urls, failed_urls, consecutive_crashes, start_type, ret>>
  /\ UNCHANGED <<urls, existing_dates, site, faults_left, playwright, browser,
                 context, browser_type, videos_since_restart, total_crashes,
                 results, started, phase, idx, firefox_results, url, existing_date,
                 retry_count, first_retry_count, error_msg, ret_val, attempts,
                 starts, seen, extracted, close_timeout, batchVars, sheetVars,
                 jobVars, helperVars>>

\* lines 930-933: the retry wave's browser start has returned
RetryStarted ==
  /\ pc = "retry_started"
  /\ started' = FALSE
  /\ IF started
       THEN /\ pc' = "retry_loop"
            /\ phase' = "retry"
            /\ idx' = 1
       ELSE /\ pc' = "firefox_check"
            /\ UNCHANGED <<phase, idx>>
  /\ UNCHANGED <<urls, existing_dates, site, faults_left, playwright, browser,
                 context, browser_type, videos_since_restart, consecutive_crashes,
                 total_crashes, failed_urls, results, ret, start_type, retry_urls,
                 firefox_results, url, existing_date, retry_count,
                 first_retry_count, error_msg, ret_val, attempts, starts, seen,
                 extracted, close_timeout, batchVars, sheetVars, jobVars,
                 helperVars>>

\* lines 933-937: next URL of the retry wave; it is crawled when a failed
\* entry of it is found in results, and skipped otherwise
RetryCall ==
  /\ pc = "retry_loop"
  /\ idx <= Len(retry_urls)
  /\ IF FirstFailedIndex(results, retry_urls[idx]) # 0
       THEN Call(retry_urls[idx], 0) /\ UNCHANGED idx
       ELSE /\ idx' = idx + 1
            /\ UNCHANGED <<url, existing_date, retry_count, first_retry_count, attempts, starts, seen, pc>>
  /\ UNCHANGED <<urls, existing_dates, site, faults_left, playwright, browser,
                 context, browser_type, videos_since_restart, consecutive_crashes,
                 total_crashes, failed_urls, results, ret, start_type, started,
                 phase, retry_urls, firefox_results, error_msg, ret_val, extracted,
                 close_timeout, batchVars, sheetVars, jobVars, helperVars>>

\* line 944: `await self.close_browser()` after the retry wave
RetryEnd ==
  /\ pc = "retry_loop"
  /\ idx > Len(retry_urls)
  /\ \E co \in CloseOutcomes :
       /\ CloseBrowser(co)
       /\ pc' = IF Blocked(HandlesSet, co) THEN "blocked" ELSE "firefox_check"
  /\ UNCHANGED <<urls, existing_dates, site, browser_type, videos_since_restart,
                 consecutive_crashes, total_crashes, failed_urls, results, ret,
                 start_type, started, phase, idx, retry_urls, firefox_results, url,
                 existing_date, retry_count, first_retry_count, error_msg, ret_val,
                 attempts, starts, seen, extracted, batchVars, sheetVars, jobVars,
                 helperVars>>

\* lines 947-948, 817-829: Firefox fallback for the URLs still failed
FirefoxCheck ==
  /\ pc = "firefox_check"
  /\ IF failed_urls # <<>>
       THEN /\ retry_urls' = failed_urls
            /\ firefox_results' = <<>>
            /\ pc' = "start_browser"
            /\ start_type' = "firefox"
            /\ ret' = "firefox_started"
       ELSE /\ pc' = "done"
            /\ UNCHANGED <<retry_urls, firefox_results, start_type, ret>>
  /\ UNCHANGED <<urls, existing_dates, site, faults_left, playwright, browser,
                 context, browser_type, videos_since_restart, consecutive_crashes,
                 total_crashes, failed_urls, results, started, phase, idx, url,
                 existing_date, retry_count, first_retry_count, error_msg, ret_val,
                 attempts, starts, seen, extracted, close_timeout, batchVars,
                 sheetVars, jobVars, helperVars>>

\* lines 829-831: `if not await self.start_browser('firefox'): return []`
FirefoxStarted ==
  /\ pc = "firefox_started"
  /\ started' = FALSE
  /\ IF started
       THEN /\ pc' = "firefox_loop"
            /\ phase' = "firefox"
            /\ idx' = 1
       ELSE /\ pc' = "done"
            /\ UNCHANGED <<phase, idx>>
  /\ UNCHANGED <<urls, existing_dates, site, faults_left, playwright, browser,
                 context, browser_type, videos_since_restart, consecutive_crashes,
                 total_crashes, failed_urls, results, ret, start_type, retry_urls,
                 firefox_results, url, existing_date, retry_count,
                 first_retry_count, error_msg, ret_val, attempts, starts, seen,
                 extracted, close_timeout, batchVars, sheetVars, jobVars,
                 helperVars>>

\* lines 833-836: the Firefox wave calls crawl_single with one retry left
FirefoxCall ==
  /\ pc = "firefox_loop"
  /\ idx <= Len(retry_urls)
  /\ consecutive_crashes' = 0
  /\ Call(retry_urls[idx], max_retries - 1)
  /\ UNCHANGED <<urls, existing_dates, site, faults_left, playwright, browser,
                 context, browser_type, videos_since_restart, total_crashes,
                 failed_urls, results, ret, start_type, started, phase, idx,
                 retry_urls, firefox_results, error_msg, ret_val, extracted,
                 close_timeout, batchVars, sheetVars, jobVars, helperVars>>

\* lines 841-844, 950-954: close the Firefox session, merge its results
FirefoxEnd ==
  /\ pc = "firefox_loop"
  /\ idx > Len(retry_urls)
  /\ \E co \in CloseOutcomes :
       /\ CloseBrowser(co)
       /\ IF Blocked(HandlesSet, co)
            THEN pc' = "blocked" /\ UNCHANGED results
            ELSE pc' = "done" /\ results' = MergeFirefox(results, firefox_results)
  /\ UNCHANGED <<urls, existing_dates, site, browser_type, videos_since_restart,
                 consecutive_crashes, total_crashes, failed_urls, ret, start_type,
                 started, phase, idx, retry_urls, firefox_results, url,
                 existing_date, retry_count, first_retry_count, error_msg, ret_val,
                 attempts, starts, seen, extracted, batchVars, sheetVars, jobVars,
                 helperVars>>

\* the frame's arguments and locals are gone once crawl_single has returned
NoResult == Result(EmptyUrl, FALSE, None, None, "", FALSE)

FrameGone ==
  /\ url' = EmptyUrl
  /\ existing_date' = Some("")
  /\ retry_count' = 0
  /\ first_retry_count' = 0
  /\ error_msg' = ""
  /\ ret_val' = NoResult
  /\ started' = FALSE
  /\ attempts' = 0
  /\ starts' = 0
  /\ seen' = {}
  /\ extracted' = None

\* crawl_single has returned ret_val: the caller's next statements
\* (lines 910; 938-942; 837-838)
Returned ==
  /\ pc = "returned"
  /\ CASE phase = "first" ->
            /\ results' = Append(results, ret_val)
            /\ pc' = "first_loop"
            /\ UNCHANGED <<failed_urls, firefox_results>>
       [] phase = "retry" ->
            /\ results' = StoreRetry(results, FirstFailedIndex(results, retry_urls[idx]), ret_val)
            /\ failed_urls' = IF ret_val.success
                                THEN RemoveFirst(failed_urls, retry_urls[idx])
                                ELSE failed_urls
            /\ pc' = "retry_loop"
            /\ UNCHANGED firefox_results
       [] phase = "firefox" ->
            /\ firefox_results' = IF ret_val.success
                                    THEN Append(firefox_results, ret_val)
                                    ELSE firefox_results
            /\ pc' = "firefox_loop"
            /\ UNCHANGED <<results, failed_urls>>
  /\ idx' = idx + 1
  /\ FrameGone
  /\ UNCHANGED <<urls, existing_dates, site, faults_left, playwright, browser,
                 context, browser_type, videos_since_restart, consecutive_crashes,
                 total_crashes, ret, start_type, phase, retry_urls, close_timeout,
                 batchVars, sheetVars, jobVars, helperVars>>


\* ------------------------------------------------------------------------
\* Specification of the crawl engine: one crawl_all run of a fresh
\* SequentialTikTokCrawler (as _async_batch creates it)
\* ------------------------------------------------------------------------
SeqsUpTo(S, n) == UNION {[1..k -> S] : k \in 1..n}

Range(f) == {f[i] : i \in DOMAIN f}

\* the cleaned URLs of the valid entries of a URL list
ValidUrls(us) ==
  {validate_tiktok_url(u).url : u \in {w \in Range(us) : validate_tiktok_url(w).ok}}

\* the ledger dates crawl_all_videos passes: '' or a YYYY-MM-DD string;
\* in the ledger of the model the URLs without scheme carry a date
LedgerDate(u) == IF u.scheme THEN Some("") ELSE Some("2024-01-15")

\* in a crawl_all run every URL has one way of failing
SiteModes == {{"timeout"}, {"nodata"}, {"crash"}}

BatchIdle ==
  /\ caller = "idle"
  /\ timer = FALSE
  /\ partial = None
  /\ batch_result = None
  /\ job_result = None

SheetIdle ==
  /\ sheet = <<>>
  /\ last_records = <<>>
  /\ last_io = None
  /\ runs = 0

\* the background tasks the trigger endpoints can start, and one that has
\* not been started
JobIds == 1..MaxJobs

IdleJob == [pc |-> "idle", records |-> <<>>, k |-> 1, inflight |-> ""]

JobsIdle == jobs = [j \in JobIds |-> IdleJob]

\* no helper function has been called on its own
HelpersIdle == arg = None /\ value = None /\ utc_offset = 0

\* SequentialTikTokCrawler.__init__ (lines 472-488) and the arguments
CrawlInit ==
  /\ urls \in SeqsUpTo(UrlPool, MaxUrls)
  /\ existing_dates = [u \in Range(urls) |-> LedgerDate(u)]
  /\ site \in [ValidUrls(urls) -> SiteModes]
  /\ faults_left = MaxFaults
  /\ playwright = FALSE
  /\ browser = FALSE
  /\ context = FALSE
  /\ browser_type = "chromium"
  /\ videos_since_restart = 0
  /\ consecutive_crashes = 0
  /\ total_crashes = 0
  /\ failed_urls = <<>>
  /\ results = <<>>
  /\ pc = "crawl_all"
  /\ ret = "ca_started"
  /\ start_type = "chromium"
  /\ started = FALSE
  /\ phase = "none"
  /\ idx = 1
  /\ retry_urls = <<>>
  /\ firefox_results = <<>>
  /\ url = EmptyUrl
  /\ existing_date = Some("")
  /\ retry_count = 0
  /\ first_retry_count = 0
  /\ error_msg = ""
  /\ ret_val = NoResult
  /\ attempts = 0
  /\ starts = 0
  /\ seen = {}
  /\ extracted = None
  /\ close_timeout = FALSE

Init == CrawlInit /\ BatchIdle /\ SheetIdle /\ JobsIdle /\ HelpersIdle

Next ==
  \/ CrawlAll
  \/ StartBrowser
  \/ FirstPassStarted
  \/ FirstPassCall
  \/ FirstPassEnd
  \/ RetryCheck
  \/ RetryStarted
  \/ RetryCall
  \/ RetryEnd
  \/ FirefoxCheck
  \/ FirefoxStarted
  \/ FirefoxCall
  \/ FirefoxEnd
  \/ CrawlSingleEntry
  \/ EnsureBrowser
  \/ EnsureBrowserDone
  \/ TrySuccess
  \/ TryNoData
  \/ TryTimeout
  \/ TryError
  \/ HandleException
  \/ AfterCrashRestart
  \/ Recurse
  \/ Returned

Spec == Init /\ [][Next]_vars

\* ------------------------------------------------------------------------
\* Properties of a crawl_all run (under Spec)
\* ------------------------------------------------------------------------
BrokenHasNoViews(r) == r.is_broken => r.views = None

\* C6: every result crawl_single returns, and every entry of crawl_all's
\* result list (and of the Firefox wave's list) at every point of the run
\* including after the retry waves, has views = None whenever is_broken.
C6_BrokenImpliesNoViews ==
  /\ pc = "returned" => BrokenHasNoViews(ret_val)
  /\ \A i \in 1..Len(results) : BrokenHasNoViews(results[i])
  /\ \A i \in 1..Len(firefox_results) : BrokenHasNoViews(firefox_results[i])

\* a run that went through a retry wave has ended with a broken entry
C6_Witness ==
  /\ pc = "done"
  /\ phase \in {"retry", "firefox"}
  /\ \E i \in 1..Len(results) : results[i].is_broken /\ results[i].error = "Timeout"

\* the first pass is over: its finally block has run
FirstPassOver ==
  \/ phase \in {"retry", "firefox"}
  \/ /\ phase = "first"
     /\ pc \in {"retry_check", "retry_started", "firefox_check", "firefox_started", "done"}
  \/ /\ phase = "first"
     /\ pc = "start_browser"
     /\ ret \in {"retry_started", "firefox_started"}

\* results holds one entry per input URL so far, in input order
OnePerUrlInOrder(rs) ==
  /\ Len(rs) <= Len(urls)
  /\ \A i \in 1..Len(rs) : rs[i].url = validate_tiktok_url(urls[i]).url

\* C7: once the first-pass session has started, the result list holds one
\* entry per input URL in input order, of the length of the input once the
\* first pass is over, and a step of a retry wave changes the list only by
\* overwriting a failed entry with a successful one of the same URL.
C7_OneResultPerUrl ==
  [][ /\ OnePerUrlInOrder(results')
      /\ FirstPassOver' => Len(results') = Len(urls)
      /\ FirstPassOver /\ results' # results =>
            /\ Len(results') = Len(results)
            /\ \A i \in 1..Len(results) :
                  results'[i] # results[i] =>
                    /\ ~results[i].success
                    /\ results'[i].success
                    /\ results'[i].url = results[i].url ]_vars

\* a retry wave has overwritten the failed entry of the second of two URLs
C7_Witness ==
  /\ pc = "done"
  /\ phase \in {"retry", "firefox"}
  /\ Len(urls) = 2
  /\ Len(results) = 2
  /\ ~results[1].success
  /\ results[2].success
  /\ retry_urls # <<>>
  /\ results[2].url \in Range(retry_urls)

\* every URL of a list passes validate_tiktok_url
AllValid(us) == \A i \in 1..Len(us) : validate_tiktok_url(us[i]).ok

\* C11: a crawl_single call for a URL that validate_tiktok_url rejects
\* returns in its first step a result with success false and is_broken
\* true for that URL, without a browser start or a page load and with the
\* session handles, videos_since_restart, consecutive_crashes,
\* total_crashes and failed_urls unchanged; it is not a frame of a retry,
\* and no rejected URL is ever in failed_urls, in the list of a retry wave
\* or the argument of a call made by a retry wave.
C11_InvalidUrlTerminal ==
  [][ /\ pc = "crawl_single" /\ ~validate_tiktok_url(url).ok =>
           /\ pc' = "returned"
           /\ ret_val'.url = url
           /\ ~ret_val'.success
           /\ ret_val'.is_broken
           /\ retry_count = 0
           /\ attempts' = 0
           /\ starts' = 0
           /\ UNCHANGED <<playwright, browser, context, videos_since_restart,
                          consecutive_crashes, total_crashes, failed_urls>>
      /\ AllValid(failed_urls')
      /\ AllValid(retry_urls')
      /\ pc' = "crawl_single" /\ phase' \in {"retry", "firefox"} =>
           validate_tiktok_url(url').ok ]_vars

\* a run with a retry wave has ended and the result of the profile URL in
\* its list is still the one validation produced
C11_Witness ==
  /\ pc = "done"
  /\ phase \in {"retry", "firefox"}
  /\ \E i \in 1..Len(results) :
       /\ results[i] = InvalidUrlResult(ProfileUrl, "Profile URL, not video")
       /\ urls[i] = ProfileUrl

\* C18: close_browser always returns, and when the graceful shutdown did
\* not complete within browser_close_timeout the context, browser and
\* driver handles are all None after the call.  (Observed after the close
\* that ends the first pass, lines 916-917, where nothing has touched the
\* handles since.)
C18_CloseAlwaysReturns ==
  /\ pc # "blocked"
  /\ close_timeout /\ pc = "retry_check" => ~context /\ ~browser /\ ~playwright

\* C17: when crawl_all has returned, every URL that passed validation and
\* whose result is unsuccessful has been through both retry waves: the
\* run reached the Firefox wave (which follows the chromium retry wave)
\* and the URL was in that wave's list.
C17_FailedUrlsRetriedInBothWaves ==
  pc = "done" =>
    \A i \in 1..Len(results) :
      ~results[i].success /\ validate_tiktok_url(urls[i]).ok =>
        /\ phase = "firefox"
        /\ results[i].url \in Range(retry_urls)

\* ------------------------------------------------------------------------
\* crawl_batch_sync / _run_in_thread: the caller submits _async_batch to a
\* one-worker executor and waits in future.result(timeout=18000); the
\* worker thread runs crawl_all (the crawl engine's actions above)
\* ------------------------------------------------------------------------
\* line 1041: the worker has finished, future.result returns its list;
\* lines 1020-1027: crawl_batch_sync returns it ([] too when it is empty:
\* the success-rate division raises and the except branch returns [])
FutureResult ==
  /\ caller = "waiting"
  /\ pc = "done"
  /\ batch_result' = Some(results)
  /\ caller' = "returned"
  /\ UNCHANGED <<timer, partial, job_result, crawlVars, sheetVars, jobVars,
                 helperVars>>

\* line 1041: the timeout elapses first and future.result raises; leaving
\* the `with` block (line 1039) calls executor.shutdown(wait=True), which
\* waits for the worker thread
TimeoutElapses ==
  /\ caller = "waiting"
  /\ pc # "done"
  /\ timer' = TRUE
  /\ partial' = Some(results)
  /\ caller' = "shutdown"
  /\ UNCHANGED <<batch_result, job_result, crawlVars, sheetVars, jobVars,
                 helperVars>>

\* the worker has finished, shutdown returns and the TimeoutError reaches
\* crawl_batch_sync, whose except branch returns [] (lines 1024-1027)
ShutdownReturns ==
  /\ caller = "shutdown"
  /\ pc = "done"
  /\ batch_result' = Some(<<>>)
  /\ caller' = "returned"
  /\ UNCHANGED <<timer, partial, job_result, crawlVars, sheetVars, jobVars,
                 helperVars>>

InitBatch ==
  /\ CrawlInit
  /\ caller = "waiting"
  /\ timer = FALSE
  /\ partial = None
  /\ batch_result = None
  /\ job_result = None
  /\ SheetIdle
  /\ JobsIdle /\ HelpersIdle

NextBatch ==
  \/ FutureResult
  \/ TimeoutElapses
  \/ ShutdownReturns
  \/ CrawlAll
  \/ StartBrowser
  \/ FirstPassStarted
  \/ FirstPassCall
  \/ FirstPassEnd
  \/ RetryCheck
  \/ RetryStarted
  \/ RetryCall
  \/ RetryEnd
  \/ FirefoxCheck
  \/ FirefoxStarted
  \/ FirefoxCall
  \/ FirefoxEnd
  \/ CrawlSingleEntry
  \/ EnsureBrowser
  \/ EnsureBrowserDone
  \/ TrySuccess
  \/ TryNoData
  \/ TryTimeout
  \/ TryError
  \/ HandleException
  \/ AfterCrashRestart
  \/ Recurse
  \/ Returned

SpecBatch == InitBatch /\ [][NextBatch]_vars

\* C8 as stated: once the hard timeout has elapsed, the caller is not left
\* waiting while the worker goes on crawling, the worker's browser session
\* has been closed, and what crawl_batch_sync returns is the list of
\* results accumulated when the timeout elapsed.
C8_TimeoutReturnsPartial ==
  timer =>
    /\ ~(caller = "shutdown" /\ pc # "done" /\ Some(results) # partial)
    /\ pc # "done" => ~browser /\ ~context
    /\ caller = "returned" => batch_result = partial

\* ------------------------------------------------------------------------
\* Specification of one top-level crawl_single call, entered from any state
\* a crawl can have left the crawler in: any handles, a crash count of
\* zero, at the limit or one below it, a session at or next to its restart
\* age, any number of browser faults still to come
\* ------------------------------------------------------------------------
EntryUrls == UrlPool \cup {EmptyUrl}

EntryDates == {Some(""), Some("2024-01-15"), Some("2024-13-45")}

\* the ways the page of the call can fail: one way only, or any of them
EntrySiteModes == {{k} : k \in FailKinds} \cup {FailKinds}

SingleInit ==
  /\ \E u \in EntryUrls, d \in EntryDates :
       /\ urls = <<u>>
       /\ existing_dates = [w \in {u} |-> d]
       /\ url = u
       /\ existing_date = d
  /\ site \in [ValidUrls(urls) -> EntrySiteModes]
  /\ faults_left = Unlimited
  /\ playwright \in BOOLEAN
  /\ browser \in BOOLEAN
  /\ context \in BOOLEAN
  /\ browser_type \in {"chromium", "firefox"}
  /\ videos_since_restart \in {0, restart_browser_every - 1, restart_browser_every}
  /\ consecutive_crashes \in {0, max_consecutive_crashes - 1, max_consecutive_crashes}
  /\ total_crashes = 0
  /\ failed_urls = <<>>
  /\ results = <<>>
  /\ pc = "crawl_single"
  /\ ret = "ca_started"
  /\ start_type = browser_type
  /\ started = FALSE
  /\ phase = "none"
  /\ idx = 1
  /\ retry_urls = <<>>
  /\ firefox_results = <<>>
  /\ retry_count \in {0, max_retries - 1}
  /\ first_retry_count = retry_count
  /\ error_msg = ""
  /\ ret_val = NoResult
  /\ attempts = 0
  /\ starts = 0
  /\ seen = {}
  /\ extracted = None
  /\ close_timeout = FALSE

InitSingle == SingleInit /\ BatchIdle /\ SheetIdle /\ JobsIdle /\ HelpersIdle

NextSingle ==
  \/ StartBrowser
  \/ CrawlSingleEntry
  \/ EnsureBrowser
  \/ EnsureBrowserDone
  \/ TrySuccess
  \/ TryNoData
  \/ TryTimeout
  \/ TryError
  \/ HandleException
  \/ AfterCrashRestart
  \/ Recurse

SpecSingle == InitSingle /\ [][NextSingle]_vars

\* ------------------------------------------------------------------------
\* Properties of one crawl_single call (under SpecSingle)
\* ------------------------------------------------------------------------
\* C5: while every page load of the call has ended in a session crash, the
\* URL has been tried at most max_consecutive_crashes times and the browser
\* has been started at most three times per frame of the recursion; the
\* call then returns a failed result.
C5_CrashLoopContained ==
  seen = {"crash"} =>
    /\ attempts <= max_consecutive_crashes
    /\ starts <= 3 * (max_retries + 1)
    /\ pc = "returned" => ~ret_val.success

\* a call has returned after crashing on its first try and on every retry
C5_Witness ==
  /\ pc = "returned"
  /\ seen = {"crash"}
  /\ first_retry_count = 0
  /\ attempts = max_retries + 1
  /\ starts >= max_retries + 1
  /\ ~ret_val.success

\* C9 as stated: a call whose every page load yielded no data returns,
\* once retries are exhausted, is_broken = false and the valid ledger date.
C9_NoDataPreservesExisting ==
  pc = "returned" /\ seen = {"nodata"} /\ ret_val.error = "No data extracted" =>
    /\ ~ret_val.is_broken
    /\ ret_val.publish_date = PreservedDate(existing_date)

\* C10 as stated: a call from retry_count 0 whose every navigation timed
\* out has made max_retries + 1 attempts and returns the Timeout result.
C10_TimeoutAlwaysExhausts ==
  pc = "returned" /\ seen = {"timeout"} /\ first_retry_count = 0 =>
    /\ attempts = max_retries + 1
    /\ ret_val = TimeoutResult(url)

\* C10, amended: a call whose every navigation timed out either has made
\* the initial attempt and every retry its retry_count left
\* (max_retries + 1 attempts from retry_count 0) and returns the Timeout
\* result (success false, is_broken true, views and date null), or a
\* browser start failed before a retry and it returns 'Browser failed to
\* start' after fewer attempts, is_broken false.
C10_TimeoutExhaustsOrStartFails ==
  pc = "returned" /\ seen = {"timeout"} =>
    \/ /\ ret_val = TimeoutResult(url)
       /\ attempts = max_retries + 1 - first_retry_count
       /\ ~ret_val.success /\ ret_val.is_broken
       /\ ret_val.views = None /\ ret_val.publish_date = None
    \/ /\ ret_val = StartFailedResult(url, existing_date)
       /\ attempts <= max_retries - first_retry_count
       /\ ~ret_val.success /\ ~ret_val.is_broken

\* a call from retry_count 0 has timed out max_retries + 1 times
C10_Witness ==
  /\ pc = "returned"
  /\ seen = {"timeout"}
  /\ first_retry_count = 0
  /\ attempts = max_retries + 1
  /\ ret_val = TimeoutResult(url)

\* C16: a call that returns success returns as publish_date the ledger
\* date it was given when that is a valid date, whatever was extracted;
\* else the extracted date when that is valid; else null.
C16_PublishDatePriority ==
  pc = "returned" /\ ret_val.success =>
    /\ is_valid_publish_date(existing_date) => ret_val.publish_date = existing_date
    /\ ~is_valid_publish_date(existing_date) /\ is_valid_publish_date(extracted) =>
          ret_val.publish_date = extracted
    /\ ~is_valid_publish_date(existing_date) /\ ~is_valid_publish_date(extracted) =>
          ret_val.publish_date = None

\* a successful call given a valid ledger date has extracted another date
\* and returned the ledger's
C16_Witness ==
  /\ pc = "returned"
  /\ ret_val.success
  /\ existing_date = Some("2024-01-15")
  /\ extracted = Some("2024-03-01")
  /\ ret_val.publish_date = Some("2024-01-15")

\* ------------------------------------------------------------------------
\* Sheet reconciliation.  A data row is the record of its cells A-E and G
\* (F, Last Check, holds the time of the write and is left out); data row i
\* is sheet row i + 1.  The Views and Baseline cells hold None when empty;
\* a None written by update is taken to empty the cell.
\* ------------------------------------------------------------------------
MaxRows == 2
MaxRuns == 2
MaxDedupRows == 3

RecordIds == {"r1", "r2"}

\* str.strip() on the ids that occur
Strip(s) == CASE s = "r2 " -> "r2" [] s = " " -> "" [] OTHER -> s

\* re.match(r'^\d{4}-\d{2}-\d{2}$', s)
MatchesYMD(s) == s \in {"2024-01-15", "2024-03-01", "2024-13-45"}

\* _validate_and_format_publish_date on None and on the strings that occur
validate_and_format_publish_date(d) ==
  IF d = None THEN ""
  ELSE IF d[1] = "" THEN ""
  ELSE IF MatchesYMD(d[1]) THEN d[1]
  ELSE ""

LinkOf(id) == IF id = "r1" THEN VideoUrl(1) ELSE VideoUrl(2)

\* the Lark (ledger) records: r1 carries a publish date, r2 none
LarkRecord(id) ==
  [id |-> id, link |-> LinkOf(id), views |-> Some(1000), baseline |-> None,
   publish_date |-> IF id = "r1" THEN Some("2024-01-15") ELSE None]

\* `x or 0`
OrZero(x) == IF x = None THEN 0 ELSE x[1]

\* `a or b` on optional strings
OrElse(a, b) == IF a = None \/ a = Some("") THEN b ELSE a

\* process_lark_record with a crawl result, or NoResult for none
process_lark_record(lark, tiktok_result) ==
  IF tiktok_result # NoResult /\ tiktok_result.is_broken
    THEN [record_id |-> lark.id, link |-> lark.link, views |-> None, baseline |-> None,
          publish_date |-> None, status |-> "broken", is_broken |-> TRUE]
    ELSE
      LET crawled == /\ tiktok_result # NoResult
                     /\ tiktok_result.success
                     /\ OrZero(tiktok_result.views) > 0
          baseline == IF OrZero(lark.baseline) # 0 THEN OrZero(lark.baseline)
                      ELSE OrZero(lark.views)
      IN [record_id |-> lark.id, link |-> lark.link,
          views |-> IF crawled THEN tiktok_result.views ELSE Some(OrZero(lark.views)),
          baseline |-> Some(baseline),
          publish_date |-> IF crawled
                             THEN OrElse(tiktok_result.publish_date, lark.publish_date)
                             ELSE lark.publish_date,
          status |-> IF crawled THEN "success" ELSE "partial",
          is_broken |-> FALSE]

\* the crawl results a record can come with
CrawlResultsFor(lark) ==
  {TimeoutResult(lark.link), CrashLimitResult(lark.link, lark.publish_date)}
    \cup {SuccessResult(lark.link, lark.publish_date, data) : data \in ExtractedData}

RecordsFor(lark) == {process_lark_record(lark, r) : r \in CrawlResultsFor(lark)}

RecordPool == UNION {RecordsFor(LarkRecord(id)) : id \in RecordIds}

SeqsUpTo0(S, n) == UNION {[1..k -> S] : k \in 0..n}

\* the record ids of the active Lark records of a run, in Lark's order
ActiveIds == {<<>>, <<"r1">>, <<"r2">>, <<"r1", "r2">>}

\* processed_records of crawl_all_videos: one record per active Lark record
RecordLists ==
  UNION {{rs \in [1..Len(ids) -> RecordPool] : \A k \in 1..Len(ids) : rs[k].record_id = ids[k]} :
           ids \in ActiveIds}

\* the row update and append_row write for a record
RowOf(record) ==
  [id |-> record.record_id, link |-> record.link, views |-> record.views,
   baseline |-> record.baseline,
   date |-> validate_and_format_publish_date(record.publish_date),
   status |-> record.status]

\* rows a sheet can hold before the first run
RowPool ==
  { [id |-> "r1", link |-> LinkOf("r1"), views |-> Some(1000), baseline |-> Some(900),
     date |-> "2024-01-15", status |-> "success"],
    [id |-> "r1", link |-> LinkOf("r1"), views |-> Some(700), baseline |-> Some(700),
     date |-> "", status |-> "partial"],
    [id |-> "r2 ", link |-> LinkOf("r2"), views |-> Some(1000), baseline |-> Some(900),
     date |-> "2024-01-15", status |-> "success"],
    [id |-> "", link |-> LinkOf("r2"), views |-> None, baseline |-> None,
     date |-> "", status |-> ""] }

\* What the sheet API answers to an update / append_row call: it succeeds,
\* or it raises; str(e) of the exceptions that occur: the quota rejection
\* (HTTP 429), a server error, and a connection error, whose text quotes
\* the request URL (here the update of sheet row 429)
ApiOk == "ok"

QuotaExceeded == "APIError: [429]: Quota exceeded for quota metric 'Write requests'"

InternalError == "APIError: [500]: Internal error encountered."

ConnectionError == "ConnectionError: Max retries exceeded with url: .../values/A429:G429"

WriteErrors == {QuotaExceeded, InternalError, ConnectionError}

\* `'429' in str(e) or 'quota' in str(e).lower()`
IsRateLimitMsg(msg) == msg \in {QuotaExceeded, ConnectionError}

\* The answers the API holds ready for the write of one record: it accepts
\* the first call, or it rejects it and holds an answer ready for a second
\* call, should the code make one
WriteAccepted == [first |-> ApiOk, second |-> ApiOk]

WriteOutcomes ==
  {WriteAccepted} \cup
  {[first |-> f, second |-> s] : f \in WriteErrors, s \in {ApiOk, InternalError}}

\* the try / except of one record in the write loops (lines 246-311,
\* 334-392): the API calls issued for it, as the list of their answers
WriteCalls(o) ==
  IF o.first = ApiOk THEN <<o.first>>
  ELSE IF IsRateLimitMsg(o.first) THEN <<o.first, o.second>>
  ELSE <<o.first>>

\* the row was written: the last call issued for it succeeded
Written(o) == WriteCalls(o)[Len(WriteCalls(o))] = ApiOk

\* Outcomes of the API calls of one run: the index read, the write of each
\* record id, the read of the duplicate pass and the number of delete_rows
\* calls that succeed before one raises
IoOk ==
  [index_ok |-> TRUE, write |-> [id \in RecordIds |-> WriteAccepted],
   dedup_read_ok |-> TRUE, deletes_ok |-> Unlimited]

\* every call succeeds, or a read or a delete_rows call fails
ReadOutcomes ==
  {IoOk, [IoOk EXCEPT !.index_ok = FALSE], [IoOk EXCEPT !.dedup_read_ok = FALSE]}
    \cup {[IoOk EXCEPT !.deletes_ok = k] : k \in {0, 1}}

\* every call succeeds, or one kind of call fails; of the writes, the one
\* of one record is rejected for its quota, with either answer to the
\* retry, or fails with a server error
IoOutcomes ==
  ReadOutcomes
    \cup {[IoOk EXCEPT !.write[id] = [first |-> f, second |-> s]] :
            id \in RecordIds,
            f \in {QuotaExceeded, InternalError}, s \in {ApiOk, InternalError}}

\* the same, with every answer the API can give to the write of one record
AllIoOutcomes ==
  ReadOutcomes
    \cup {[IoOk EXCEPT !.write[id] = o] : id \in RecordIds, o \in WriteOutcomes}

HasId(row) == row.id # "" /\ Strip(row.id) # ""

Max(S) == CHOOSE x \in S : \A y \in S : y <= x

\* get_all_records_with_index: stripped id -> number of the last row with it
get_all_records_with_index(rows, ok) ==
  IF ~ok \/ rows = <<>> THEN [id \in {} |-> 0]
  ELSE LET ids == {Strip(rows[i].id) : i \in {j \in 1..Len(rows) : HasId(rows[j])}} IN
       [id \in ids |->
          1 + Max({i \in 1..Len(rows) : HasId(rows[i]) /\ Strip(rows[i].id) = id})]

\* records_dict: one record per id (the last), in order of first occurrence
RECURSIVE FirstIds(_)
FirstIds(records) ==
  IF records = <<>> THEN <<>>
  ELSE LET rest == FirstIds(SubSeq(records, 1, Len(records) - 1))
           id == records[Len(records)].record_id
       IN IF id \in Range(rest) THEN rest ELSE Append(rest, id)

LastWith(records, id) ==
  records[Max({i \in 1..Len(records) : records[i].record_id = id})]

records_dict(records) ==
  LET ids == FirstIds(records) IN [k \in 1..Len(ids) |-> LastWith(records, ids[k])]

\* faulty variant of update_records: the first update that fails for good
\* ends the loop
RECURSIVE update_records_aborting(_, _, _, _)
update_records_aborting(rows, recs, index, io) ==
  IF recs = <<>> THEN rows
  ELSE LET r == Head(recs)
           found == r.record_id \in DOMAIN index
           ok == Written(io.write[r.record_id])
       IN IF found /\ ~ok THEN rows
          ELSE update_records_aborting(
                 IF found THEN [rows EXCEPT ![index[r.record_id] - 1] = RowOf(r)] ELSE rows,
                 Tail(recs), index, io)

\* faulty variant of update_records: the update is written over every row
\* that holds the record's id
RECURSIVE update_records_every_row(_, _, _, _)
update_records_every_row(rows, recs, index, io) ==
  IF recs = <<>> THEN rows
  ELSE LET r == Head(recs)
           hit == r.record_id \in DOMAIN index /\ Written(io.write[r.record_id])
           after == IF hit
                      THEN [n \in 1..Len(rows) |->
                              IF HasId(rows[n]) /\ Strip(rows[n].id) = r.record_id
                                THEN RowOf(r) ELSE rows[n]]
                    ELSE rows
       IN update_records_every_row(after, Tail(recs), index, io)

\* _update_records_with_rate_limit: each record found in the index is
\* written over its row, unless its update call fails for good
RECURSIVE update_records(_, _, _, _)
update_records(rows, recs, index, io) ==
  IF recs = <<>> THEN rows
  ELSE LET r == Head(recs)
           hit == r.record_id \in DOMAIN index /\ Written(io.write[r.record_id])
           after == IF hit THEN [rows EXCEPT ![index[r.record_id] - 1] = RowOf(r)]
                    ELSE rows
       IN update_records(after, Tail(recs), index, io)

\* _insert_records_with_rate_limit: each record not in the index is
\* appended, unless its append_row call fails for good
RECURSIVE insert_records(_, _, _, _)
insert_records(rows, recs, index, io) ==
  IF recs = <<>> THEN rows
  ELSE LET r == Head(recs)
           hit == r.record_id \notin DOMAIN index /\ Written(io.write[r.record_id])
       IN insert_records(IF hit THEN Append(rows, RowOf(r)) ELSE rows, Tail(recs), index, io)

\* updated_count of _update_records_with_rate_limit
RECURSIVE update_count(_, _, _)
update_count(recs, index, io) ==
  IF recs = <<>> THEN 0
  ELSE LET r == Head(recs)
           hit == r.record_id \in DOMAIN index /\ Written(io.write[r.record_id])
       IN (IF hit THEN 1 ELSE 0) + update_count(Tail(recs), index, io)

\* inserted_count of _insert_records_with_rate_limit
RECURSIVE insert_count(_, _, _)
insert_count(recs, index, io) ==
  IF recs = <<>> THEN 0
  ELSE LET r == Head(recs)
           hit == r.record_id \notin DOMAIN index /\ Written(io.write[r.record_id])
       IN (IF hit THEN 1 ELSE 0) + insert_count(Tail(recs), index, io)

\* the update / append_row calls one write loop issues, in order: the
\* record id, the kind of call and the API's answer
RECURSIVE loop_calls(_, _, _, _)
loop_calls(recs, index, io, kind) ==
  IF recs = <<>> THEN <<>>
  ELSE LET r == Head(recs)
           mine == (kind = "update") = (r.record_id \in DOMAIN index)
           answers == WriteCalls(io.write[r.record_id])
           calls == [k \in 1..Len(answers) |->
                       [id |-> r.record_id, kind |-> kind, answer |-> answers[k]]]
       IN (IF mine THEN calls ELSE <<>>) \o loop_calls(Tail(recs), index, io, kind)

\* the write calls of a run: the update loop, then the insert loop
write_calls(rows, records, io) ==
  LET index == get_all_records_with_index(rows, io.index_ok)
      recs == records_dict(records)
  IN IF records = <<>> THEN <<>>
     ELSE loop_calls(recs, index, io, "update") \o loop_calls(recs, index, io, "append")

\* What one write loop does, in order, as the kinds of its API calls and
\* "sleep" for a time.sleep: after a call that succeeds the loop sleeps
\* unless the record is the last of its list (lines 275-276, 359-360);
\* after a rate-limit error it sleeps and calls again (lines 285-306,
\* 369-387); after any other error, and after the second call, it goes on
\* to the next record at once.
RECURSIVE loop_events(_, _, _)
loop_events(mine, io, kind) ==
  IF mine = <<>> THEN <<>>
  ELSE LET o == io.write[Head(mine).record_id]
           this == IF o.first = ApiOk
                     THEN IF Len(mine) > 1 THEN <<kind, "sleep">> ELSE <<kind>>
                   ELSE IF IsRateLimitMsg(o.first) THEN <<kind, "sleep", kind>>
                   ELSE <<kind>>
       IN this \o loop_events(Tail(mine), io, kind)

\* lines 427-429: each delete_rows call that returns is followed by a sleep
delete_events(n, k) ==
  IF k = Unlimited \/ n <= k THEN [i \in 1..(2 * n) |-> IF i % 2 = 1 THEN "delete_rows" ELSE "sleep"]
  ELSE [i \in 1..(2 * k + 1) |-> IF i % 2 = 1 THEN "delete_rows" ELSE "sleep"]

\* the pair batch_update_records returns
write_counts(rows, records, io) ==
  LET index == get_all_records_with_index(rows, io.index_ok)
      recs == records_dict(records)
  IN IF records = <<>> THEN <<0, 0>>
     ELSE <<update_count(recs, index, io), insert_count(recs, index, io)>>

\* faulty variant of rows_to_delete: no row is found to be a duplicate
no_rows_to_delete(rows) == {}

\* faulty variant of rows_to_delete: of the later rows of the ids, only the
\* last one in the sheet is marked
rows_to_delete_last_only(rows) ==
  LET D == {i \in 1..Len(rows) :
              /\ rows[i].id # ""
              /\ \E j \in 1..(i - 1) : rows[j].id # "" /\ Strip(rows[j].id) = Strip(rows[i].id)}
  IN IF D = {} THEN {} ELSE {Max(D)}

\* rows_to_delete of _remove_duplicates, as data row indices
rows_to_delete(rows) ==
  {i \in 1..Len(rows) :
     /\ rows[i].id # ""
     /\ \E j \in 1..(i - 1) : rows[j].id # "" /\ Strip(rows[j].id) = Strip(rows[i].id)}

\* line 427: sorted(rows_to_delete, reverse=True)
RECURSIVE SortedReverse(_)
SortedReverse(S) ==
  IF S = {} THEN <<>> ELSE <<Max(S)>> \o SortedReverse(S \ {Max(S)})

\* worksheet.delete_rows(i) on the data rows: the rows below i move up; a
\* row below the data is a blank row of the grid
delete_rows(rows, i) ==
  IF i \in 1..Len(rows)
    THEN [k \in 1..(Len(rows) - 1) |-> IF k < i THEN rows[k] ELSE rows[k + 1]]
    ELSE rows

\* lines 427-429: one delete_rows call per marked row, in the order given,
\* until the call after the first k raises (never when k = Unlimited)
RECURSIVE delete_each(_, _, _)
delete_each(rows, order, k) ==
  IF order = <<>> \/ k = 0 THEN rows
  ELSE delete_each(delete_rows(rows, Head(order)), Tail(order), k - 1)

\* _remove_duplicates: nothing when the read fails or there are fewer than
\* two data rows; else the later rows of each id are deleted from the
\* bottom up until a delete_rows call raises
remove_duplicates(rows, io) ==
  IF ~io.dedup_read_ok \/ Len(rows) < 2 THEN rows
  ELSE delete_each(rows, SortedReverse(rows_to_delete(rows)), io.deletes_ok)

\* the number of delete_rows calls of the pass that succeeded
deleted_count(rows, io) ==
  IF ~io.dedup_read_ok \/ Len(rows) < 2 THEN 0
  ELSE LET n == Cardinality(rows_to_delete(rows)) IN
       IF io.deletes_ok = Unlimited \/ n <= io.deletes_ok THEN n ELSE io.deletes_ok

\* the pass read the sheet and none of its delete_rows calls raised
dedup_completed(rows, io) ==
  /\ io.dedup_read_ok
  /\ \/ io.deletes_ok = Unlimited
     \/ Len(rows) < 2
     \/ Cardinality(rows_to_delete(rows)) <= io.deletes_ok

\* the rows batch_update_records hands to _remove_duplicates
written_rows(rows, records, io) ==
  LET index == get_all_records_with_index(rows, io.index_ok)
      recs == records_dict(records)
      updated == update_records(rows, recs, index, io)
  IN insert_records(updated, recs, index, io)

\* the write calls and the sleeps of a run: the update loop, the insert
\* loop, the duplicate pass
run_events(rows, records, io) ==
  LET index == get_all_records_with_index(rows, io.index_ok)
      recs == records_dict(records)
      written == written_rows(rows, records, io)
  IN IF records = <<>> THEN <<>>
     ELSE loop_events(SelectSeq(recs, LAMBDA r : r.record_id \in DOMAIN index), io, "update")
          \o loop_events(SelectSeq(recs, LAMBDA r : r.record_id \notin DOMAIN index), io, "append")
          \o (IF ~io.dedup_read_ok \/ Len(written) < 2 THEN <<>>
              ELSE delete_events(Cardinality(rows_to_delete(written)), io.deletes_ok))

\* batch_update_records
batch_update_records(rows, records, io) ==
  IF records = <<>> THEN rows
  ELSE remove_duplicates(written_rows(rows, records, io), io)

\* what a run's API calls did: the index was read, every write went
\* through, the duplicate pass read the sheet and no delete_rows raised
IoSummary(rows, records, io) ==
  [index_ok |-> io.index_ok,
   writes_ok |-> \A k \in 1..Len(records) : Written(io.write[records[k].record_id]),
   dedup_ok |-> /\ io.dedup_read_ok
                /\ \/ io.deletes_ok = Unlimited
                   \/ records = <<>>
                   \/ Cardinality(rows_to_delete(written_rows(rows, records, io)))
                        <= io.deletes_ok]

\* a reconciliation run: crawl_all_videos hands its processed records to
\* batch_update_records
BatchUpdateRecords ==
  /\ runs < MaxRuns
  /\ \E records \in RecordLists, io \in IoOutcomes :
       /\ sheet' = batch_update_records(sheet, records, io)
       /\ last_records' = records
       /\ last_io' = Some(IoSummary(sheet, records, io))
  /\ runs' = runs + 1
  /\ UNCHANGED <<crawlVars, batchVars, jobVars, helperVars>>

\* the same run, observed call by call: last_io keeps, with the summary,
\* the write calls issued and the pair of counts returned
ReconcileRun ==
  /\ runs = 0
  /\ \E records \in RecordLists, io \in AllIoOutcomes :
       /\ sheet' = batch_update_records(sheet, records, io)
       /\ last_records' = records
       /\ last_io' = Some([summary |-> IoSummary(sheet, records, io),
                           calls |-> write_calls(sheet, records, io),
                           events |-> run_events(sheet, records, io),
                           before |-> sheet,
                           index |-> get_all_records_with_index(sheet, io.index_ok),
                           written |-> written_rows(sheet, records, io),
                           counts |-> write_counts(sheet, records, io)])
  /\ runs' = runs + 1
  /\ UNCHANGED <<crawlVars, batchVars, jobVars, helperVars>>

\* no crawl is running
CrawlIdle ==
  /\ urls = <<>>
  /\ existing_dates = <<>>
  /\ site = <<>>
  /\ faults_left = 0
  /\ playwright = FALSE
  /\ browser = FALSE
  /\ context = FALSE
  /\ browser_type = "chromium"
  /\ videos_since_restart = 0
  /\ consecutive_crashes = 0
  /\ total_crashes = 0
  /\ failed_urls = <<>>
  /\ results = <<>>
  /\ pc = "idle"
  /\ ret = "ca_started"
  /\ start_type = "chromium"
  /\ started = FALSE
  /\ phase = "none"
  /\ idx = 1
  /\ retry_urls = <<>>
  /\ firefox_results = <<>>
  /\ url = EmptyUrl
  /\ existing_date = Some("")
  /\ retry_count = 0
  /\ first_retry_count = 0
  /\ error_msg = ""
  /\ ret_val = NoResult
  /\ attempts = 0
  /\ starts = 0
  /\ seen = {}
  /\ extracted = None
  /\ close_timeout = FALSE

InitSheet ==
  /\ CrawlIdle
  /\ BatchIdle
  /\ JobsIdle /\ HelpersIdle
  /\ sheet \in SeqsUpTo0(RowPool, MaxRows)
  /\ last_records = <<>>
  /\ last_io = None
  /\ runs = 0

NextSheet == BatchUpdateRecords

SpecSheet == InitSheet /\ [][NextSheet]_vars

\* _remove_duplicates called on its own, on any sheet: the rows of the pool
\* and a row whose Record ID cell holds only a blank
BlankIdRow ==
  [id |-> " ", link |-> LinkOf("r1"), views |-> Some(700), baseline |-> Some(700),
   date |-> "", status |-> "partial"]

DedupOutcomes ==
  {IoOk, [IoOk EXCEPT !.dedup_read_ok = FALSE]}
    \cup {[IoOk EXCEPT !.deletes_ok = k] : k \in {0, 1}}

\* one pass; last_io keeps whether it completed, the number of rows it
\* deleted, and the same of the passes before it
RemoveDuplicates ==
  /\ runs < MaxRuns
  /\ \E io \in DedupOutcomes :
       /\ sheet' = remove_duplicates(sheet, io)
       /\ last_io' = Some([dedup_ok |-> dedup_completed(sheet, io),
                           deleted |-> deleted_count(sheet, io),
                           prev |-> last_io])
  /\ runs' = runs + 1
  /\ UNCHANGED <<last_records, crawlVars, batchVars, jobVars, helperVars>>

InitDedup ==
  /\ CrawlIdle
  /\ BatchIdle
  /\ JobsIdle /\ HelpersIdle
  /\ sheet \in SeqsUpTo0(RowPool \cup {BlankIdRow}, MaxDedupRows)
  /\ last_records = <<>>
  /\ last_io = None
  /\ runs = 0

NextDedup == RemoveDuplicates

SpecDedup == InitDedup /\ [][NextDedup]_vars

\* one reconciliation run from any sheet, observed call by call
NextWrite == ReconcileRun

SpecWrite == InitSheet /\ [][NextWrite]_vars

\* ------------------------------------------------------------------------
\* crawl_all_videos: the job.  It reads the active Lark records, crawls
\* their links with crawl_batch_sync (the wrapper and the crawl engine
\* above), processes each record with the result found for its link and
\* hands the records to batch_update_records.
\* ------------------------------------------------------------------------
\* the Lark record behind a URL of the crawl list
IdOfUrl(u) ==
  CASE u = VideoUrl(1) -> "r1"
    [] u = BareVideoUrl(2) -> "r2"
    [] OTHER -> "r3"

JobRecord(u) ==
  [id |-> IdOfUrl(u), link |-> u, views |-> Some(1000), baseline |-> None,
   publish_date |-> IF DateOf(existing_dates, u) = Some("") THEN None
                    ELSE DateOf(existing_dates, u)]

\* crawl_results.get(url): the last result of the batch carrying that url
ResultFor(batch, u) ==
  LET hits == {i \in 1..Len(batch) : batch[i].url = u /\ u # EmptyUrl} IN
  IF hits = {} THEN NoResult ELSE batch[Max(hits)]

\* processed_records (lines 375-398)
ProcessedRecords(batch) ==
  [i \in 1..Len(urls) |-> process_lark_record(JobRecord(urls[i]), ResultFor(batch, urls[i]))]

\* the sheet API answers every call of the job
JobIo == [IoOk EXCEPT !.write = [id \in {"r1", "r2", "r3"} |-> WriteAccepted]]

\* number of entries of a list that satisfy a test
CountIf(seq, Test(_)) == Cardinality({i \in 1..Len(seq) : Test(seq[i])})

\* no sheet API call of the job gets through: the reads raise, each write
\* is refused and refused again on its retry, delete_rows raises
SinkDown ==
  [index_ok |-> FALSE,
   write |-> [id \in {"r1", "r2", "r3"} |-> [first |-> ConnectionError, second |-> InternalError]],
   dedup_read_ok |-> FALSE, deletes_ok |-> 0]

JobIoOutcomes == {JobIo, SinkDown}

\* lines 375-421: crawl_batch_sync has returned; process, write, report.
\* batch_update_records catches what the sheet calls raise (sheets_client.py
\* lines 165-167, 223-225), so nothing reaches the except of line 426 here.
CrawlAllVideos ==
  /\ caller = "returned"
  /\ job_result = None
  /\ \E io \in JobIoOutcomes :
       LET processed == ProcessedRecords(batch_result[1])
           counts == write_counts(sheet, processed, io)
       IN /\ sheet' = batch_update_records(sheet, processed, io)
          /\ last_records' = processed
          /\ last_io' = Some(IoSummary(sheet, processed, io))
          /\ job_result' =
               Some([success |-> TRUE, message |-> "Crawler v3.2 completed successfully",
                     total |-> Len(urls),
                     processed |-> Len(processed),
                     updated |-> counts[1],
                     inserted |-> counts[2],
                     failed |-> CountIf(processed, LAMBDA r : ~r.is_broken /\ r.status # "success"),
                     broken |-> CountIf(processed, LAMBDA r : r.is_broken)])
  /\ runs' = runs + 1
  /\ UNCHANGED <<caller, timer, partial, batch_result, crawlVars, jobVars,
                 helperVars>>

NextJob ==
  \/ CrawlAllVideos
  \/ FutureResult
  \/ TimeoutElapses
  \/ ShutdownReturns
  \/ CrawlAll
  \/ StartBrowser
  \/ FirstPassStarted
  \/ FirstPassCall
  \/ FirstPassEnd
  \/ RetryCheck
  \/ RetryStarted
  \/ RetryCall
  \/ RetryEnd
  \/ FirefoxCheck
  \/ FirefoxStarted
  \/ FirefoxCall
  \/ FirefoxEnd
  \/ CrawlSingleEntry
  \/ EnsureBrowser
  \/ EnsureBrowserDone
  \/ TrySuccess
  \/ TryNoData
  \/ TryTimeout
  \/ TryError
  \/ HandleException
  \/ AfterCrashRestart
  \/ Recurse
  \/ Returned

SpecJob == InitBatch /\ [][NextJob]_vars

\* crawl_all could not start the browser at the beginning of the batch and
\* returned at line 883
StartFailedAtBeginning == pc = "done" /\ phase = "none"

\* C14 as stated: a job whose crawl could not start the browser session
\* at the beginning of the batch returns success false with every
\* statistic zero.
C14_StartFailureFailsJob ==
  job_result # None /\ StartFailedAtBeginning =>
    LET job == job_result[1] IN
    /\ ~job.success
    /\ job.total = 0
    /\ job.processed = 0
    /\ job.updated = 0
    /\ job.inserted = 0
    /\ job.failed = 0
    /\ job.broken = 0

\* ------------------------------------------------------------------------
\* The trigger endpoints (main.py).  POST /jobs/daily and POST
\* /jobs/crawl-batch add a plain function to the request's BackgroundTasks
\* and answer at once; the framework runs such a function in a worker
\* thread of its pool after the response.  The function runs
\* crawl_all_videos / crawl_videos_batch on the one global crawler, which
\* ends in batch_update_records on the one global sheets client; every
\* update / append_row there is a blocking HTTP request.  A job is at
\*   "idle"     not triggered
\*   "crawling" in the task, before batch_update_records
\*   "writing"  in the write loops, at record k; inflight is the record id
\*              of the request it is waiting for ("" between requests)
\*   "done"
\* ------------------------------------------------------------------------
\* the record ids a /jobs/crawl-batch request can name
RequestedIds == {{"r1"}, {"r2"}, {"r1", "r2"}}

\* the active Lark records, in Lark's order
AllRecords == <<"r1", "r2">>

\* `[r for r in all_records if r.get('id') in record_ids]`
Filtered(ids) == SelectSeq(AllRecords, LAMBDA id : id \in ids)

\* POST /jobs/daily (lines 158-183): nothing is tested but the presence of
\* the clients; the task is added whatever other task is running
DailyCrawlJob ==
  /\ \E j \in JobIds :
       /\ jobs[j].pc = "idle"
       /\ jobs' = [jobs EXCEPT ![j] = [IdleJob EXCEPT !.pc = "crawling", !.records = AllRecords]]
  /\ UNCHANGED <<crawlVars, batchVars, sheetVars, helperVars>>

\* POST /jobs/crawl-batch (lines 247-276)
CrawlBatch ==
  /\ \E j \in JobIds, ids \in RequestedIds :
       /\ jobs[j].pc = "idle"
       /\ jobs' = [jobs EXCEPT ![j] = [IdleJob EXCEPT !.pc = "crawling", !.records = Filtered(ids)]]
  /\ UNCHANGED <<crawlVars, batchVars, sheetVars, helperVars>>

\* the task's crawl is over, it enters batch_update_records
JobCrawled ==
  /\ \E j \in JobIds :
       /\ jobs[j].pc = "crawling"
       /\ jobs' = [jobs EXCEPT ![j].pc = "writing"]
  /\ UNCHANGED <<crawlVars, batchVars, sheetVars, helperVars>>

\* the task sends the write request of its next record
JobWriteIssued ==
  /\ \E j \in JobIds :
       /\ jobs[j].pc = "writing"
       /\ jobs[j].inflight = ""
       /\ jobs[j].k <= Len(jobs[j].records)
       /\ jobs' = [jobs EXCEPT ![j].inflight = jobs[j].records[jobs[j].k]]
  /\ UNCHANGED <<crawlVars, batchVars, sheetVars, helperVars>>

\* the request is answered
JobWriteAnswered ==
  /\ \E j \in JobIds :
       /\ jobs[j].pc = "writing"
       /\ jobs[j].inflight # ""
       /\ jobs' = [jobs EXCEPT ![j].inflight = "", ![j].k = jobs[j].k + 1]
  /\ UNCHANGED <<crawlVars, batchVars, sheetVars, helperVars>>

\* the write loops are over, the task ends
JobDone ==
  /\ \E j \in JobIds :
       /\ jobs[j].pc = "writing"
       /\ jobs[j].inflight = ""
       /\ jobs[j].k > Len(jobs[j].records)
       /\ jobs' = [jobs EXCEPT ![j].pc = "done"]
  /\ UNCHANGED <<crawlVars, batchVars, sheetVars, helperVars>>

InitJobs == CrawlIdle /\ BatchIdle /\ SheetIdle /\ JobsIdle /\ HelpersIdle

NextJobs ==
  \/ DailyCrawlJob
  \/ CrawlBatch
  \/ JobCrawled
  \/ JobWriteIssued
  \/ JobWriteAnswered
  \/ JobDone

SpecJobs == InitJobs /\ [][NextJobs]_vars

\* C15 as stated: no two jobs wait at the same time for the answer to a
\* write of the same record id.
C15_NoConcurrentWritesPerRecord ==
  \A i, j \in JobIds :
    i # j /\ jobs[i].inflight # "" => jobs[i].inflight # jobs[j].inflight

\* ------------------------------------------------------------------------
\* Properties of the reconciliation runs (under SpecSheet)
\* ------------------------------------------------------------------------
\* no two rows carry the same non-empty Record ID (compared as stripped)
NoDuplicateIds(rows) ==
  \A i, j \in 1..Len(rows) :
    i < j /\ rows[i].id # "" /\ rows[j].id # "" => Strip(rows[i].id) # Strip(rows[j].id)

\* the rows of record id `id`
RowsOf(rows, id) == {i \in 1..Len(rows) : rows[i].id # "" /\ Strip(rows[i].id) = id}

\* every API call of the last run succeeded
AllOk(io) == io # None /\ io[1].index_ok /\ io[1].writes_ok /\ io[1].dedup_ok

C2_SecondRunChangesNothing ==
  [][ /\ runs > 0
      /\ runs' = runs + 1
      /\ last_records' = last_records
      /\ AllOk(last_io)
      /\ AllOk(last_io')
      => sheet' = sheet ]_vars

\* C3 as stated: after a run all of whose API calls succeeded, every
\* record of the list with is_broken has a row, and its rows have empty
\* Views, Baseline and Published Date cells and status 'broken'.
C3_BrokenRowsCleared ==
  runs > 0 /\ AllOk(last_io) =>
    \A k \in 1..Len(last_records) :
      last_records[k].is_broken =>
        /\ RowsOf(sheet, last_records[k].record_id) # {}
        /\ \A i \in RowsOf(sheet, last_records[k].record_id) :
             /\ sheet[i].views = None
             /\ sheet[i].baseline = None
             /\ sheet[i].date = ""
             /\ sheet[i].status = "broken"

\* C4 as stated: in a run all of whose API calls succeed, a record whose
\* crawl succeeded with a date, and whose id has exactly one row and that
\* row holds a validly formatted date different from the record's, leaves
\* that row's date as it was.
C4_StoredDateWins ==
  [][ runs' = runs + 1 /\ AllOk(last_io') =>
        \A k \in 1..Len(last_records') :
          LET r == last_records'[k] IN
          \A i \in RowsOf(sheet, r.record_id) :
            /\ r.status = "success"
            /\ RowsOf(sheet, r.record_id) = {i}
            /\ MatchesYMD(sheet[i].date)
            /\ validate_and_format_publish_date(r.publish_date) # ""
            /\ sheet[i].date # validate_and_format_publish_date(r.publish_date)
            => \E j \in RowsOf(sheet', r.record_id) : sheet'[j].date = sheet[i].date ]_vars

\* the write calls of a run issued for record id `id`
CallsFor(calls, id) == SelectSeq(calls, LAMBDA c : c.id = id)

\* the ids of a record list
IdsOf(records) == {records[k].record_id : k \in 1..Len(records)}

\* the ids whose last write call of the run succeeded
WrittenIds(calls) ==
  {id \in RecordIds :
     LET mine == CallsFor(calls, id) IN mine # <<>> /\ mine[Len(mine)].answer = ApiOk}

\* C12 as stated: in a run, at most two write calls are issued for a
\* record; a first call rejected with the quota error is followed by
\* exactly one more call of the same kind for that record; a first call
\* that fails with an error other than the quota error is the only one.
C12_QuotaRetriedOnceOthersNot ==
  runs > 0 =>
    \A id \in RecordIds :
      LET mine == CallsFor(last_io[1].calls, id) IN
      /\ Len(mine) <= 2
      /\ mine # <<>> /\ mine[1].answer = QuotaExceeded =>
            Len(mine) = 2 /\ mine[2].kind = mine[1].kind
      /\ mine # <<>> /\ mine[1].answer \notin {ApiOk, QuotaExceeded} => Len(mine) = 1

\* C13: in a run with a non-empty record list a write is issued for every
\* record of the list, whatever happened to the writes before it; the
\* counts returned add up to the number of records whose last write call
\* succeeded (a successful quota retry included); a record that was
\* written and whose id had at most one row is found in the sheet with
\* its values when the index read and the duplicate pass succeeded; and
\* the duplicate pass has run: when it succeeded no id is left twice.
C13_FailedWriteIsSkipped ==
  [][ runs' = runs + 1 /\ last_records' # <<>> =>
        LET io == last_io'[1]
            index_ok == io.summary.index_ok
            dedup_ok == io.summary.dedup_ok
        IN
        /\ \A id \in IdsOf(last_records') : CallsFor(io.calls, id) # <<>>
        /\ io.counts[1] + io.counts[2] = Cardinality(WrittenIds(io.calls))
        /\ \A k \in 1..Len(last_records') :
              LET r == last_records'[k] IN
              /\ r.record_id \in WrittenIds(io.calls)
              /\ index_ok
              /\ dedup_ok
              /\ Cardinality(RowsOf(sheet, r.record_id)) <= 1
              => \E i \in RowsOf(sheet', r.record_id) : sheet'[i] = RowOf(r)
        /\ dedup_ok => NoDuplicateIds(sheet') ]_vars

\* the update of r1 was rejected with the quota error and its retry failed
\* too; r2, the record after it, has been written over its row
C13_Witness ==
  /\ runs > 0
  /\ Len(last_records) = 2
  /\ last_io[1].summary.index_ok
  /\ last_io[1].summary.dedup_ok
  /\ last_io[1].calls =
       << [id |-> "r1", kind |-> "update", answer |-> QuotaExceeded],
          [id |-> "r1", kind |-> "update", answer |-> InternalError],
          [id |-> "r2", kind |-> "update", answer |-> ApiOk] >>
  /\ last_io[1].counts = <<1, 0>>
  /\ \E i \in RowsOf(sheet, "r2") : sheet[i] = RowOf(last_records[2])
  /\ \E i \in RowsOf(sheet, "r1") : sheet[i] # RowOf(last_records[1])

\* C21: the write calls of a run follow the order of the record list (the
\* order of the URL list): every call for a record is issued before every
\* call for a record that comes later in the list.
C21_WritesInListOrder ==
  runs > 0 =>
    \A i, j \in 1..Len(last_records) :
      i < j =>
        \A p, q \in 1..Len(last_io[1].calls) :
          /\ last_io[1].calls[p].id = last_records[i].record_id
          /\ last_io[1].calls[q].id = last_records[j].record_id
          => p < q

\* ------------------------------------------------------------------------
\* Properties of the duplicate pass (under SpecDedup)
\* ------------------------------------------------------------------------
\* the rows that are a second or later occurrence of a Record ID; a cell
\* holds a Record ID when it is not blank (get_all_records_with_index,
\* lines 157-160)
LaterOccurrences(rows) ==
  {i \in 1..Len(rows) :
     /\ HasId(rows[i])
     /\ \E j \in 1..(i - 1) : HasId(rows[j]) /\ Strip(rows[j].id) = Strip(rows[i].id)}

RECURSIVE Keep(_, _)
Keep(rows, D) ==
  IF rows = <<>> THEN <<>>
  ELSE LET init == Keep(SubSeq(rows, 1, Len(rows) - 1), D) IN
       IF Len(rows) \in D THEN init ELSE Append(init, rows[Len(rows)])

\* C19: a completed pass of _remove_duplicates over a sheet of two or more
\* rows deletes exactly the rows that are a second or later occurrence of
\* a Record ID: the rows left are the first occurrence of each id, the
\* rows with a unique id and the rows without an id, unchanged and in
\* their order.
C19_DeletesExactlyLaterOccurrences ==
  [][runs' = runs + 1 /\ last_io'[1].dedup_ok =>
       sheet' = Keep(sheet, LaterOccurrences(sheet))]_vars

\* the same on the sheets in which no Record ID cell holds only a blank
LaterOccurrencesDeletedWhenNoBlankId ==
  [][/\ runs' = runs + 1
     /\ last_io'[1].dedup_ok
     /\ \A i \in 1..Len(sheet) : sheet[i].id # "" => Strip(sheet[i].id) # ""
     => sheet' = Keep(sheet, LaterOccurrences(sheet))]_vars

\* C20: a pass of _remove_duplicates that follows a completed pass deletes
\* no row and leaves the sheet unchanged.
C20_DedupIdempotent ==
  [][runs >= 1 /\ runs' = runs + 1 /\ last_io[1].dedup_ok =>
       sheet' = sheet /\ last_io'[1].deleted = 0]_vars

\* a second pass, itself completed, has followed a completed pass that
\* deleted two rows
C20_Witness ==
  /\ runs = 2
  /\ last_io[1].dedup_ok
  /\ last_io[1].deleted = 0
  /\ last_io[1].prev[1].dedup_ok
  /\ last_io[1].prev[1].deleted = 2
  /\ Len(sheet) = 1

\* ------------------------------------------------------------------------
\* Numbers beyond the machine integers of the checker: natural numbers as
\* sequences of digits in base 1024, lowest digit first, without leading
\* zeros (0 is <<>>).  Python's int is unbounded and its float is an
\* IEEE-754 double with a 53-bit significand.
\* ------------------------------------------------------------------------
Base == 1024
BaseBits == 10

RECURSIVE Norm(_)
Norm(b) == IF b = <<>> \/ b[Len(b)] # 0 THEN b ELSE Norm(SubSeq(b, 1, Len(b) - 1))

RECURSIVE AddC(_, _, _)
AddC(a, b, c) ==
  IF a = <<>> /\ b = <<>> THEN (IF c = 0 THEN <<>> ELSE <<c>>)
  ELSE LET x == IF a = <<>> THEN 0 ELSE Head(a)
           y == IF b = <<>> THEN 0 ELSE Head(b)
           t == x + y + c
       IN <<t % Base>> \o AddC(IF a = <<>> THEN <<>> ELSE Tail(a),
                               IF b = <<>> THEN <<>> ELSE Tail(b), t \div Base)

AddBits(a, b) == Norm(AddC(a, b, 0))

\* b * n + c for machine integers 0 <= n <= 1024 and c
RECURSIVE MulC(_, _, _)
MulC(b, n, c) ==
  IF b = <<>> THEN (IF c = 0 THEN <<>> ELSE <<c % Base>> \o MulC(<<>>, n, c \div Base))
  ELSE LET t == Head(b) * n + c IN <<t % Base>> \o MulC(Tail(b), n, t \div Base)

MulSmall(b, n) == Norm(MulC(b, n, 0))

\* b * n for n a product of powers of 1000
Times(b, n) ==
  CASE n = 1 -> b
    [] n = 1000 -> MulSmall(b, 1000)
    [] n = 1000000 -> MulSmall(MulSmall(b, 1000), 1000)
    [] n = 1000000000 -> MulSmall(MulSmall(MulSmall(b, 1000), 1000), 1000)

FromInt(n) == Norm(<<n % Base, (n \div Base) % Base, (n \div (Base * Base)) % Base,
                     n \div (Base * Base * Base)>>)

\* quotient and remainder of b by a machine integer 0 < d <= 100000
RECURSIVE DivRem(_, _)
DivRem(b, d) ==
  IF b = <<>> THEN [q |-> <<>>, r |-> 0]
  ELSE LET high == DivRem(Tail(b), d)
           cur == Base * high.r + Head(b)
       IN [q |-> Norm(<<cur \div d>> \o high.q), r |-> cur % d]

\* the number of bits of b
BitLen(b) ==
  IF b = <<>> THEN 0
  ELSE BaseBits * (Len(b) - 1) + (CHOOSE n \in 1..BaseBits : 2^(n - 1) <= b[Len(b)] /\ b[Len(b)] < 2^n)

\* bit i of b, bit 0 being the lowest
Bit(b, i) ==
  IF i \div BaseBits >= Len(b) THEN 0
  ELSE (b[(i \div BaseBits) + 1] \div 2^(i % BaseBits)) % 2

IsOdd(b) == Bit(b, 0) = 1

\* b * 2^s
ShiftLeft(b, s) ==
  IF b = <<>> THEN <<>>
  ELSE [i \in 1..(s \div BaseBits) |-> 0] \o MulSmall(b, 2^(s % BaseBits))

\* b div 2^s
ShiftRight(b, s) ==
  IF s \div BaseBits >= Len(b) THEN <<>>
  ELSE DivRem(SubSeq(b, (s \div BaseBits) + 1, Len(b)), 2^(s % BaseBits)).q

\* b / 2^t rounded to the nearest integer, ties to even
RoundShiftRight(b, t) ==
  IF t = 0 THEN b
  ELSE LET q == ShiftRight(b, t)
           half == Bit(b, t - 1) = 1
           sticky == \E i \in 0..(t - 2) : Bit(b, i) = 1
       IN IF half /\ (sticky \/ IsOdd(q)) THEN AddBits(q, <<1>>) ELSE q

Pow10(k) == IF k = 0 THEN 1 ELSE IF k = 1 THEN 10 ELSE IF k = 2 THEN 100
            ELSE IF k = 3 THEN 1000 ELSE 10000

SignificandBits == 53

\* A double is sig * 2^exp.  The double nearest to b / n, for a number b > 0
\* and a machine integer 0 < n <= 10000 (ties to even): float() of a decimal
\* text and the true division int / int both give it.  The shift s makes
\* the quotient SignificandBits long.
FloatShift(b, n) ==
  LET guess == SignificandBits - (BitLen(b) - BitLen(FromInt(n))) IN
  CHOOSE s \in (guess - 1)..(guess + 1) :
    BitLen(DivRem(ShiftLeft(b, s), n).q) = SignificandBits

TrueDivide(b, n) ==
  IF b = <<>> THEN [sig |-> <<>>, exp |-> 0]
  ELSE LET s == FloatShift(b, n)
           dr == DivRem(ShiftLeft(b, s), n)
           up == 2 * dr.r > n \/ (2 * dr.r = n /\ IsOdd(dr.q))
       IN [sig |-> IF up THEN AddBits(dr.q, <<1>>) ELSE dr.q, exp |-> 0 - s]

\* float() of the decimal d / 10^k
FloatOf(d, k) == TrueDivide(FromInt(d), Pow10(k))

\* `number * multiplier`: the exact product rounded to a double
FloatTimes(x, n) ==
  LET prod == Times(x.sig, n)
      t == IF BitLen(prod) > SignificandBits THEN BitLen(prod) - SignificandBits ELSE 0
  IN [sig |-> RoundShiftRight(prod, t), exp |-> x.exp + t]

\* int() of a double: truncation
IntOfFloat(x) ==
  IF x.exp >= 0 THEN ShiftLeft(x.sig, x.exp) ELSE ShiftRight(x.sig, 0 - x.exp)

\* ------------------------------------------------------------------------
\* parse_view_count (playwright_crawler.py lines 437-460).  A text is the
\* sequence of its characters.
\* ------------------------------------------------------------------------
MaxTextLen == 4

TextChars == {"1", "2", "4", ".", "K", "M", "g", " "}

Texts == UNION {[1..n -> TextChars] : n \in 0..MaxTextLen}

Digits == {"0", "1", "2", "3", "4", "5", "6", "7", "8", "9"}

DigitValue(c) ==
  CASE c = "0" -> 0 [] c = "1" -> 1 [] c = "2" -> 2 [] c = "3" -> 3 [] c = "4" -> 4
    [] c = "5" -> 5 [] c = "6" -> 6 [] c = "7" -> 7 [] c = "8" -> 8 [] c = "9" -> 9

Filter(text, keep) == SelectSeq(text, LAMBDA c : c \in keep)

\* str.replace(c, '') for the characters c of drop
Remove(text, drop) == SelectSeq(text, LAMBDA c : c \notin drop)

\* line 446: re.sub(r'[^\d.KMB]', '', text) keeps these characters
Kept == Digits \cup {".", "K", "M", "B"}

\* str.strip()
RECURSIVE StripText(_)
StripText(text) ==
  IF text = <<>> THEN text
  ELSE IF Head(text) = " " THEN StripText(Tail(text))
  ELSE IF text[Len(text)] = " " THEN StripText(SubSeq(text, 1, Len(text) - 1))
  ELSE text

\* str.upper() on the characters that occur
UpperChar(c) == CASE c = "g" -> "G" [] c = "k" -> "K" [] c = "m" -> "M" [] c = "b" -> "B"
                  [] OTHER -> c

Upper(text) == [i \in 1..Len(text) |-> UpperChar(text[i])]

\* the suffixes in the order of the dict `multipliers` (line 451)
Suffixes == <<"K", "M", "B">>

Multiplier(c) == CASE c = "K" -> 1000 [] c = "M" -> 1000000 [] c = "B" -> 1000000000

\* float(text) accepts, of the texts left by line 446, digits with at most
\* one point and at least one digit; anything else raises ValueError
ParsesAsFloat(text) ==
  /\ \A i \in 1..Len(text) : text[i] \in Digits \cup {"."}
  /\ Len(Filter(text, {"."})) <= 1
  /\ Filter(text, Digits) # <<>>

RECURSIVE DigitsValue(_)
DigitsValue(ds) ==
  IF ds = <<>> THEN 0
  ELSE 10 * DigitsValue(SubSeq(ds, 1, Len(ds) - 1)) + DigitValue(ds[Len(ds)])

\* the number of digits after the point
Scale(text) ==
  IF Filter(text, {"."}) = <<>> THEN 0
  ELSE Len(text) - (CHOOSE i \in 1..Len(text) : text[i] = ".")

\* float(text) for a text that parses
FloatOfText(text) == FloatOf(DigitsValue(Filter(text, Digits)), Scale(text))

\* lines 453-454: the first suffix of the dict that occurs in the text
FirstSuffix(text) ==
  LET present == SelectSeq(Suffixes, LAMBDA c : c \in Range(text)) IN
  IF present = <<>> THEN "" ELSE Head(present)

\* parse_view_count; the result is a number in base Base.  Every exception of
\* lines 444-458 is caught by the bare except of line 459.
parse_view_count(text) ==
  IF text = <<>> THEN <<>>
  ELSE LET cleaned == Filter(Remove(Upper(StripText(text)), {","}), Kept)
           suffix == FirstSuffix(cleaned)
           number == Remove(cleaned, {suffix})
       IN IF cleaned = <<>> THEN <<>>
          ELSE IF suffix # ""
            THEN IF ParsesAsFloat(number)
                   THEN IntOfFloat(FloatTimes(FloatOfText(number), Multiplier(suffix)))
                   ELSE <<>>
          ELSE IF ParsesAsFloat(cleaned) THEN IntOfFloat(FloatOfText(cleaned))
          ELSE <<>>

\* parse_view_count is called on a text
ParseViewCount ==
  /\ arg # None
  /\ value = None
  /\ value' = Some(parse_view_count(arg[1]))
  /\ UNCHANGED <<arg, utc_offset, crawlVars, batchVars, sheetVars, jobVars>>

InitCount ==
  /\ CrawlIdle
  /\ BatchIdle
  /\ SheetIdle
  /\ JobsIdle
  /\ arg \in {Some(t) : t \in Texts}
  /\ value = None
  /\ utc_offset = 0

NextCount == ParseViewCount

SpecCount == InitCount /\ [][NextCount]_vars

\* ------------------------------------------------------------------------
\* Properties of parse_view_count (under SpecCount)
\* ------------------------------------------------------------------------
\* a numeric string with an optional K/M/B suffix: digits with at most one
\* point, a digit on each side of it, and at most one suffix letter, last
IsCount(text) ==
  LET body == IF text # <<>> /\ text[Len(text)] \in {"K", "M", "B"}
                THEN SubSeq(text, 1, Len(text) - 1) ELSE text
  IN /\ ParsesAsFloat(body)
     /\ body[1] \in Digits
     /\ body[Len(body)] \in Digits

\* its value: the decimal times the multiplier, truncated to an integer
CountValue(text) ==
  LET suffixed == text[Len(text)] \in {"K", "M", "B"}
      body == IF suffixed THEN SubSeq(text, 1, Len(text) - 1) ELSE text
      n == IF suffixed THEN Multiplier(text[Len(text)]) ELSE 1
  IN DivRem(Times(FromInt(DigitsValue(Filter(body, Digits))), n), Pow10(Scale(body))).q

\* C22: parse_view_count returns, for a numeric string with an optional
\* K/M/B suffix, the number times 1e3/1e6/1e9 truncated to an integer, and
\* 0 for the empty text and for a text without a digit.
C22_ParseViewCountMatchesReference ==
  value # None =>
    /\ IsCount(arg[1]) => value[1] = CountValue(arg[1])
    /\ Filter(arg[1], Digits) = <<>> => value[1] = <<>>

\* ------------------------------------------------------------------------
\* convert_timestamp_to_date (playwright_crawler.py lines 147-167)
\* ------------------------------------------------------------------------
\* a < b for numbers
Less(a, b) ==
  \/ Len(a) < Len(b)
  \/ /\ Len(a) = Len(b)
     /\ \E i \in 1..Len(a) : a[i] < b[i] /\ \A j \in (i + 1)..Len(a) : a[j] = b[j]

\* the machine integer of a number below Base^3
ToInt(b) ==
  LET d(i) == IF i <= Len(b) THEN b[i] ELSE 0 IN d(1) + Base * d(2) + Base * Base * d(3)

\* b mod 2^t
LowBits(b, t) ==
  LET whole == t \div BaseBits IN
  IF whole >= Len(b) THEN b
  ELSE Norm(SubSeq(b, 1, whole) \o <<b[whole + 1] % 2^(t % BaseBits)>>)

\* a double rounded to the nearest integer, ties to even
RoundOfFloat(x) ==
  IF x.exp >= 0 THEN ShiftLeft(x.sig, x.exp) ELSE RoundShiftRight(x.sig, 0 - x.exp)

\* the fractional part of a double (math.modf)
FracOfFloat(x) ==
  IF x.exp >= 0 THEN [sig |-> <<>>, exp |-> 0]
  ELSE [sig |-> LowBits(x.sig, 0 - x.exp), exp |-> x.exp]

\* datetime.fromtimestamp of a float: the fraction is rounded to whole
\* microseconds, ties to even, and carries into the seconds at 1000000
SecondsOfFloat(x) ==
  LET us == RoundOfFloat(FloatTimes(FracOfFloat(x), 1000000)) IN
  IF Less(us, FromInt(1000000)) THEN IntOfFloat(x) ELSE AddBits(IntOfFloat(x), <<1>>)

\* line 156: values above this are milliseconds
MillisLimit == AddBits(MulSmall(FromInt(9999999), 1000), FromInt(999))

\* faulty variant of ToSeconds: milliseconds are never divided
ToSecondsUndivided(ts) == ts

\* lines 156-159: `if ts > 9999999999: ts = ts / 1000`, then the whole
\* seconds fromtimestamp makes of it
ToSeconds(ts) ==
  IF Less(MillisLimit, ts) THEN SecondsOfFloat(TrueDivide(ts, 1000)) ELSE ts

SecondsPerDay == 86400

\* the civil date of a day counted from 1970-01-01, as <<year, month, day>>
CivilFromDays(days) ==
  LET z == days + 719468
      era == z \div 146097
      doe == z % 146097
      yoe == (doe - doe \div 1460 + doe \div 36524 - doe \div 146096) \div 365
      doy == doe - (365 * yoe + yoe \div 4 - yoe \div 100)
      mp == (5 * doy + 2) \div 153
      d == doy - (153 * mp + 2) \div 5 + 1
      m == IF mp < 10 THEN mp + 3 ELSE mp - 9
  IN <<yoe + era * 400 + (IF m <= 2 THEN 1 ELSE 0), m, d>>

\* the local civil date of a time in seconds, the zone being offset seconds
\* east of UTC; <<>> where the day precedes 1970 or the year is past 9999
\* (fromtimestamp raises there, or gives a year before 1970)
LocalDate(seconds, offset) ==
  LET dr == DivRem(seconds, SecondsPerDay) IN
  IF Len(dr.q) > 2 THEN <<>>
  ELSE LET days == ToInt(dr.q) + (IF dr.r + offset < 0 THEN 0 - 1
                                  ELSE IF dr.r + offset >= SecondsPerDay THEN 1 ELSE 0)
       IN IF days < 0 THEN <<>> ELSE CivilFromDays(days)

DigitChar(n) == CHOOSE c \in Digits : DigitValue(c) = n

\* strftime('%Y-%m-%d')
StrftimeYMD(date) ==
  <<DigitChar(date[1] \div 1000), DigitChar((date[1] \div 100) % 10),
    DigitChar((date[1] \div 10) % 10), DigitChar(date[1] % 10), "-",
    DigitChar(date[2] \div 10), DigitChar(date[2] % 10), "-",
    DigitChar(date[3] \div 10), DigitChar(date[3] % 10)>>

\* int(text): surrounding blanks and one leading minus are accepted, the
\* rest must be digits, at least one
IntText(text) ==
  LET t == StripText(text) IN IF t # <<>> /\ Head(t) = "-" THEN Tail(t) ELSE t

ParsesAsInt(text) == IntText(text) # <<>> /\ \A i \in 1..Len(IntText(text)) : IntText(text)[i] \in Digits

RECURSIVE NumberOfDigits(_)
NumberOfDigits(ds) ==
  IF ds = <<>> THEN <<>>
  ELSE Norm(MulC(NumberOfDigits(SubSeq(ds, 1, Len(ds) - 1)), 10, DigitValue(ds[Len(ds)])))

\* A timestamp argument is None, an int or a str.  An int is a sign and a
\* magnitude.
NoTimestamp == [type |-> "none", neg |-> FALSE, mag |-> <<>>, text |-> <<>>]

IntTimestamp(neg, mag) == [type |-> "int", neg |-> neg, mag |-> mag, text |-> <<>>]

StrTimestamp(text) == [type |-> "str", neg |-> FALSE, mag |-> <<>>, text |-> text]

\* line 153: int(timestamp) if isinstance(timestamp, str) else timestamp
IntOfTimestamp(timestamp) ==
  IF timestamp.type = "str"
    THEN IntTimestamp(Head(StripText(timestamp.text)) = "-" /\ NumberOfDigits(IntText(timestamp.text)) # <<>>,
                      NumberOfDigits(IntText(timestamp.text)))
    ELSE timestamp

\* convert_timestamp_to_date in a process whose local time is offset seconds
\* east of UTC: None, or the text of the date.  Every exception of lines
\* 149-165 is caught by the bare except of line 166.  A negative time is
\* before 1970: fromtimestamp raises or the year fails line 162.
convert_timestamp_to_date(timestamp, offset) ==
  IF timestamp.type = "none" \/ (timestamp.type = "int" /\ timestamp.mag = <<>>)
     \/ (timestamp.type = "str" /\ timestamp.text = <<>>) THEN None
  ELSE IF timestamp.type = "str" /\ ~ParsesAsInt(timestamp.text) THEN None
  ELSE LET ts == IntOfTimestamp(timestamp) IN
       IF ts.neg THEN None
       ELSE LET dt == LocalDate(ToSeconds(ts.mag), offset) IN
            IF dt = <<>> \/ dt[1] > 9999 THEN None
            ELSE IF dt[1] < 2016 \/ dt[1] > 2030 THEN None
            ELSE Some(StrftimeYMD(dt))

\* the decimal text of a number
RECURSIVE DecimalText(_)
DecimalText(b) ==
  IF Len(b) <= 1 /\ ToInt(b) < 10 THEN <<DigitChar(ToInt(b))>>
  ELSE DecimalText(DivRem(b, 10).q) \o <<DigitChar(DivRem(b, 10).r)>>

\* The timestamps tried: times around the first and the last second of the
\* accepted years, around the milliseconds limit and in between, taken as
\* seconds, as milliseconds and as microseconds, as int and as str.
MaxHours == 7

YearEdges == {1451606400, 1924992000}

SecondsPool ==
  {0, 1, 9999999, 10000000, 1700000000}
    \cup {e + 3600 * h - d : e \in YearEdges, h \in (0 - MaxHours)..MaxHours, d \in {0, 1}}

Magnitudes ==
  {AddBits(Times(FromInt(s), n), FromInt(ms)) :
     s \in SecondsPool, n \in {1, 1000, 1000000}, ms \in {0, 1, 999}}

Timestamps ==
  {NoTimestamp, StrTimestamp(<<>>), StrTimestamp(<<"g">>)}
    \cup {IntTimestamp(neg, mag) : neg \in BOOLEAN, mag \in Magnitudes \ {<<>>}}
    \cup {IntTimestamp(FALSE, <<>>)}
    \cup {StrTimestamp(DecimalText(mag)) : mag \in Magnitudes}
    \cup {StrTimestamp(<<"-">> \o DecimalText(mag)) : mag \in Magnitudes}

\* the zones of the process: UTC, Asia/Ho_Chi_Minh, America/New_York (winter)
UtcOffsets == {0, 25200, 0 - 18000}

\* convert_timestamp_to_date is called on a timestamp
ConvertTimestamp ==
  /\ arg # None
  /\ value = None
  /\ value' = Some(convert_timestamp_to_date(arg[1], utc_offset))
  /\ UNCHANGED <<arg, utc_offset, crawlVars, batchVars, sheetVars, jobVars>>

InitDate ==
  /\ CrawlIdle
  /\ BatchIdle
  /\ SheetIdle
  /\ JobsIdle
  /\ arg \in {Some(t) : t \in Timestamps}
  /\ value = None
  /\ utc_offset \in UtcOffsets

NextDate == ConvertTimestamp

SpecDate == InitDate /\ [][NextDate]_vars

\* ------------------------------------------------------------------------
\* Properties of convert_timestamp_to_date (under SpecDate)
\* ------------------------------------------------------------------------
\* the time in whole seconds a value stands for: milliseconds above the
\* limit, seconds otherwise
SecondsMeant(mag) == IF Less(MillisLimit, mag) THEN DivRem(mag, 1000).q ELSE mag

\* a positive int whose local date falls in 2016-2030
InAcceptedYears(mag, offset) ==
  LET dt == LocalDate(SecondsMeant(mag), offset) IN
  dt # <<>> /\ dt[1] >= 2016 /\ dt[1] <= 2030

PositiveInt(timestamp) == timestamp.type = "int" /\ ~timestamp.neg /\ timestamp.mag # <<>>

\* C23: convert_timestamp_to_date reads a value above 9,999,999,999 as
\* milliseconds and any other as seconds: a value whose year is in
\* 2016-2030 gives the date of that time, a value of another year gives
\* None, and a seconds value s that gives a date gives the same date as
\* 1000 * s.
C23_SecondsAndMillisecondsAgree ==
  (value # None /\ PositiveInt(arg[1])) =>
    /\ InAcceptedYears(arg[1].mag, utc_offset) =>
         value[1] = Some(StrftimeYMD(LocalDate(SecondsMeant(arg[1].mag), utc_offset)))
    /\ ~InAcceptedYears(arg[1].mag, utc_offset) => value[1] = None
    /\ (value[1] # None /\ ~Less(MillisLimit, arg[1].mag)) =>
         convert_timestamp_to_date(IntTimestamp(FALSE, MulSmall(arg[1].mag, 1000)), utc_offset)
           = value[1]

\* a seconds value has been converted to a date
C23_Witness ==
  /\ value # None
  /\ PositiveInt(arg[1])
  /\ ~Less(MillisLimit, arg[1].mag)
  /\ value[1] # None

\* ------------------------------------------------------------------------
\* Further properties of crawl_single (under SpecSingle)
\* ------------------------------------------------------------------------
\* a frame of crawl_single is entered for a valid URL at the crash limit
EnteredAtCrashLimit ==
  /\ pc = "crawl_single"
  /\ validate_tiktok_url(url).ok
  /\ consecutive_crashes >= max_consecutive_crashes

\* C24: crawl_single entered for a valid URL with consecutive_crashes at or
\* above max_consecutive_crashes returns in that step a result with
\* success false, is_broken false and the ledger date when it is valid,
\* loads no page, and leaves consecutive_crashes at 0.
C24_CrashLimitSkipsUrl ==
  [][EnteredAtCrashLimit =>
       /\ pc' = "returned"
       /\ ~ret_val'.success
       /\ ~ret_val'.is_broken
       /\ ret_val'.publish_date = (IF is_valid_publish_date(existing_date) THEN existing_date ELSE None)
       /\ attempts' = attempts
       /\ starts' = starts
       /\ consecutive_crashes' = 0]_vars

\* a call entered at the crash limit has returned with the valid ledger date
C24_Witness ==
  /\ pc = "returned"
  /\ ret_val.error = "Too many consecutive crashes"
  /\ ret_val.publish_date = Some("2024-01-15")
  /\ attempts = 0
  /\ consecutive_crashes = 0

\* ------------------------------------------------------------------------
\* A crawl_all run in which no start_browser call fails: a call returns
\* True or stays in close_browser.  Browser and context are then set at
\* every entry of crawl_single, so the start of lines 646-659
\* (EnsureBrowserDone) is never reached and is left out.
\* ------------------------------------------------------------------------
StartBrowserSucceeds == StartBrowser /\ (started' \/ pc' = "blocked")

NextStartsSucceed ==
  \/ CrawlAll
  \/ StartBrowserSucceeds
  \/ FirstPassStarted
  \/ FirstPassCall
  \/ FirstPassEnd
  \/ RetryCheck
  \/ RetryStarted
  \/ RetryCall
  \/ RetryEnd
  \/ FirefoxCheck
  \/ FirefoxStarted
  \/ FirefoxCall
  \/ FirefoxEnd
  \/ CrawlSingleEntry
  \/ EnsureBrowser
  \/ TrySuccess
  \/ TryNoData
  \/ TryTimeout
  \/ TryError
  \/ HandleException
  \/ AfterCrashRestart
  \/ Recurse
  \/ Returned

SpecStartsSucceed == Init /\ [][NextStartsSucceed]_vars

\* C25: while every start_browser call succeeds, consecutive_crashes is at
\* most 1 and crawl_single is never entered at the crash limit.
C25_CrashCountAtMostOne ==
  /\ consecutive_crashes <= 1
  /\ ~EnteredAtCrashLimit

\* a session crash has been counted and the restart after it has reset the
\* count
C25_Witness ==
  /\ pc = "cs_crash_restarted"
  /\ total_crashes >= 2
  /\ consecutive_crashes = 0

\* C26 as stated: once a loaded page has yielded nothing, as a not-found or
\* unavailable page does, the handler's next step ends the call with a
\* broken result; the URL is not loaded again in that call.
C26_NotFoundEndsCall ==
  [][(pc = "cs_except" /\ error_msg = "No data extracted") =>
       /\ pc' = "returned"
       /\ ret_val'.is_broken
       /\ attempts' = attempts]_vars

\* ------------------------------------------------------------------------
\* Further properties of a reconcile run (under SpecWrite)
\* ------------------------------------------------------------------------
\* C27 as stated: after a run whose index read and duplicate pass
\* completed, every record whose write succeeded has exactly one row with
\* its id, and that row holds the record's values.
C27_SurvivingRowCarriesRecord ==
  (runs > 0 /\ last_io[1].summary.index_ok /\ last_io[1].summary.dedup_ok) =>
    \A id \in WrittenIds(last_io[1].calls) :
      /\ Cardinality(RowsOf(sheet, id)) = 1
      /\ \A i \in RowsOf(sheet, id) : sheet[i] = RowOf(LastWith(last_records, id))

\* ------------------------------------------------------------------------
\* Further properties of a job (under SpecJob)
\* ------------------------------------------------------------------------
\* C28 as stated: a job whose every sheet call failed reports success false
\* and statistics that are all zero.
C28_SinkDownFailsJob ==
  (job_result # None /\ last_records # <<>>
     /\ ~last_io[1].index_ok /\ ~last_io[1].writes_ok /\ ~last_io[1].dedup_ok) =>
    LET job == job_result[1] IN
    /\ ~job.success
    /\ job.total = 0 /\ job.processed = 0 /\ job.updated = 0
    /\ job.inserted = 0 /\ job.failed = 0 /\ job.broken = 0

\* ------------------------------------------------------------------------
\* Session crashes and the retry budget of crawl_single (under SpecSingle)
\* ------------------------------------------------------------------------
\* the handler of `except Exception` holds a session-crash message
CrashCaught == pc = "cs_except" /\ IsCrashMsg(error_msg)

\* C29: on a session-crash error the handler adds one to consecutive_crashes
\* and to total_crashes and calls start_browser; the retry of the URL is
\* entered only from the step after that start_browser call, and exactly
\* when retry_count < max_retries; no page is loaded in between.
C29_CrashRestartsBeforeRetry ==
  [][/\ CrashCaught =>
          /\ consecutive_crashes' = consecutive_crashes + 1
          /\ total_crashes' = total_crashes + 1
          /\ pc' = "start_browser"
          /\ ret' = "cs_crash_restarted"
          /\ attempts' = attempts
     /\ (pc = "start_browser" /\ ret = "cs_crash_restarted") =>
          /\ starts' = starts + 1
          /\ pc' \in {"cs_crash_restarted", "blocked"}
          /\ attempts' = attempts
     /\ pc' = "cs_crash_restarted" => (pc = "start_browser" /\ ret = "cs_crash_restarted")
     /\ (IsCrashMsg(error_msg) /\ pc' = "cs_recurse") => pc = "cs_crash_restarted"
     /\ pc = "cs_crash_restarted" =>
          /\ (pc' = "cs_recurse") = (retry_count < max_retries)
          /\ pc' \in {"cs_recurse", "returned"}
          /\ attempts' = attempts]_vars

\* the URL is about to be retried after a crash and the restart that
\* followed it
C29_Witness ==
  /\ pc = "cs_recurse"
  /\ IsCrashMsg(error_msg)
  /\ total_crashes >= 1
  /\ starts >= 1

\* one call under a fair scheduler: the coroutine takes its next step
\* whenever it has one
SpecSingleFair == SpecSingle /\ WF_vars(NextSingle)

\* a top-level call from retry_count 0 has loaded the page at most
\* max_retries + 1 times
AttemptsBounded == first_retry_count = 0 => attempts <= max_retries + 1

\* C30 as stated: a top-level call from retry_count 0 loads the page at
\* most max_retries + 1 times and then returns a result.
C30_BoundedAttemptsThenReturns ==
  /\ []AttemptsBounded
  /\ (first_retry_count = 0) ~> (pc = "returned")

\* ------------------------------------------------------------------------
\* The pacing and the order of the sheet calls of a run (under SpecWrite)
\* ------------------------------------------------------------------------
IsWriteCall(e) == e \in {"update", "append", "delete_rows"}

\* C31 as stated: between any two consecutive write calls of a run (update,
\* append_row, delete_rows) the run sleeps at least once.
C31_SleepBetweenWrites ==
  runs > 0 =>
    \A p \in 1..(Len(last_io[1].events) - 1) :
      ~(IsWriteCall(last_io[1].events[p]) /\ IsWriteCall(last_io[1].events[p + 1]))

\* the record of the run that carries an id
RecordOf(id) == LastWith(last_records, id)

\* the ids whose last write call of the run succeeded, by kind of call
Succeeded(kind) ==
  {id \in IdsOf(last_records) :
     \E p \in 1..Len(last_io[1].calls) :
       /\ last_io[1].calls[p].id = id
       /\ last_io[1].calls[p].kind = kind
       /\ last_io[1].calls[p].answer = ApiOk}

\* C32: the index is the one read from the sheet as it was before the run;
\* each distinct record id is written by update calls only when the index
\* holds it and by append_row calls only when it does not; a successful
\* update replaces the indexed row of its id and no other row, a successful
\* append adds one row at the end; no update follows an append and no
\* update or append follows a delete_rows.
C32_UpdateOrAppendByIndex ==
  runs > 0 =>
    LET io == last_io[1]
        ids == IdsOf(last_records)
        appended == SelectSeq(FirstIds(last_records), LAMBDA id : id \in Succeeded("append"))
    IN /\ \A id \in ids :
            /\ \E p \in 1..Len(io.calls) : io.calls[p].id = id
            /\ \A p \in 1..Len(io.calls) :
                 io.calls[p].id = id =>
                   io.calls[p].kind = (IF id \in DOMAIN io.index THEN "update" ELSE "append")
       /\ \A p, q \in 1..Len(io.calls) :
            p < q => ~(io.calls[p].kind = "append" /\ io.calls[q].kind = "update")
       /\ \A p, q \in 1..Len(io.events) :
            p < q => ~(io.events[p] = "delete_rows" /\ io.events[q] \in {"update", "append"})
       /\ Len(io.written) = Len(io.before) + Len(appended)
       /\ \A n \in 1..Len(io.before) :
            io.written[n] =
              (IF \E id \in Succeeded("update") : io.index[id] = n + 1
                 THEN RowOf(RecordOf(CHOOSE id \in Succeeded("update") : io.index[id] = n + 1))
               ELSE io.before[n])
       /\ \A k \in 1..Len(appended) :
            io.written[Len(io.before) + k] = RowOf(RecordOf(appended[k]))

\* a run that updated one row, appended another and then deleted a
\* duplicate row
C32_Witness ==
  /\ runs > 0
  /\ Succeeded("update") # {}
  /\ Succeeded("append") # {}
  /\ "delete_rows" \in Range(last_io[1].events)

\* ------------------------------------------------------------------------
\* The session counters (under SpecSingle)
\* ------------------------------------------------------------------------
\* lines 688-692: extract_video_data returned, with data (the attempt
\* returns the success result) or without (it raises "No data extracted")
ExtractionReturned ==
  /\ pc = "cs_try"
  /\ \/ pc' = "returned" /\ ret_val'.success
     \/ pc' = "cs_except" /\ error_msg' = "No data extracted"

\* C33: a start_browser call that returns True leaves videos_since_restart
\* and consecutive_crashes at 0, one that returns False (or stays in
\* close_browser) leaves both as they were, and an attempt whose page load
\* and extraction return without raising sets consecutive_crashes to 0.
C33_CounterResetPoints ==
  [][/\ pc = "start_browser" =>
          IF pc' # "blocked" /\ started'
            THEN videos_since_restart' = 0 /\ consecutive_crashes' = 0
          ELSE UNCHANGED <<videos_since_restart, consecutive_crashes>>
     /\ ExtractionReturned => consecutive_crashes' = 0]_vars

\* a crash was counted, the restart after it failed, and the next attempt
\* extracted the page: no start has reset the counters since the call began
C33_Witness ==
  /\ pc = "returned"
  /\ total_crashes > 0
  /\ starts > 0
  /\ "success" \in seen
  /\ videos_since_restart = restart_browser_every
  /\ consecutive_crashes = 0

\* C34 as stated: whenever crawl_single is about to open a page and
\* navigate (line 668), videos_since_restart < restart_browser_every.
C34_NavigatesBelowThreshold ==
  pc = "cs_try" => videos_since_restart < restart_browser_every

\* ------------------------------------------------------------------------
\* start_browser in its two steps: close_browser (line 492), then the
\* launch (lines 496-549).  SpecSessions is SpecSingle with the call split
\* at the point where close_browser has returned.
\* ------------------------------------------------------------------------
\* line 492
StartBrowserClose ==
  /\ pc = "start_browser"
  /\ \E co \in CloseOutcomes :
       /\ context' = Closed("context", HandlesSet, co)
       /\ browser' = Closed("browser", HandlesSet, co)
       /\ playwright' = Closed("playwright", HandlesSet, co)
       /\ pc' = IF Blocked(HandlesSet, co) THEN "blocked" ELSE "launch"
  /\ starts' = starts + 1
  /\ UNCHANGED <<urls, existing_dates, site, faults_left, browser_type,
                 videos_since_restart, consecutive_crashes, total_crashes,
                 failed_urls, results, ret, start_type, started, phase, idx,
                 retry_urls, firefox_results, url, existing_date, retry_count,
                 first_retry_count, error_msg, ret_val, attempts, seen, extracted,
                 close_timeout, batchVars, sheetVars, jobVars, helperVars>>

\* value of handle h after the try block of lines 496-553, given its value
\* after close_browser: each statement assigns its handle before the next
\* one can raise
Launched(h, closed, lo) ==
  CASE lo = "ok" -> TRUE
    [] lo = "fail_script" -> TRUE
    [] lo = "fail_context" -> IF h = "context" THEN closed ELSE TRUE
    [] lo = "fail_launch" -> IF h = "playwright" THEN TRUE ELSE closed
    [] lo = "fail_driver" -> closed

\* lines 496-553
StartBrowserLaunch ==
  /\ pc = "launch"
  /\ \E lo \in LaunchOutcomes :
       /\ context' = Launched("context", context, lo)
       /\ browser' = Launched("browser", browser, lo)
       /\ playwright' = Launched("playwright", playwright, lo)
       /\ videos_since_restart' = IF lo = "ok" THEN 0 ELSE videos_since_restart
       /\ consecutive_crashes' = CrashesAfterStart(lo)
       /\ started' = (lo = "ok")
  /\ browser_type' = start_type
  /\ pc' = ret
  /\ UNCHANGED <<urls, existing_dates, site, faults_left, total_crashes,
                 failed_urls, results, ret, start_type, phase, idx, retry_urls,
                 firefox_results, url, existing_date, retry_count,
                 first_retry_count, error_msg, ret_val, attempts, starts, seen,
                 extracted, close_timeout, batchVars, sheetVars, jobVars,
                 helperVars>>

NextSessions ==
  \/ StartBrowserClose
  \/ StartBrowserLaunch
  \/ CrawlSingleEntry
  \/ EnsureBrowser
  \/ EnsureBrowserDone
  \/ TrySuccess
  \/ TryNoData
  \/ TryTimeout
  \/ TryError
  \/ HandleException
  \/ AfterCrashRestart
  \/ Recurse

SpecSessions == InitSingle /\ [][NextSessions]_vars

\* C35 as stated, for the sessions of one crawler: when start_browser
\* launches a browser, the crawler holds no session whose browser and
\* driver it has not closed.
C35_ClosedBeforeLaunch ==
  pc = "launch" => ~(browser /\ playwright)

\* ------------------------------------------------------------------------
\* extract_video_data (playwright_crawler.py lines 249-434)
\* ------------------------------------------------------------------------
\* A value read under the key playCount: a number, a non-empty string, or
\* nothing (the key is missing and .get returns its default 0)
IntCount(n) == [kind |-> "int", n |-> n]
StrCount == [kind |-> "str", n |-> 0]
NoCount == [kind |-> "missing", n |-> 0]

\* what one method comes to: it raised inside its try block, it ended
\* without assigning data, or it assigned data
MethodRaised == [status |-> "raised", data |-> None]
MethodNoData == [status |-> "none", data |-> None]
MethodData(views, likes) ==
  [status |-> "data", data |-> Some([views |-> views, likes |-> likes])]

\* `if views and views > 0` followed by the dict of lines 273-279, 300-306,
\* 327-333: 0 and a missing key are falsy, a non-empty string makes the
\* comparison raise TypeError
FromStats(stats) ==
  IF stats.playCount.kind = "str" THEN MethodRaised
  ELSE IF stats.playCount.kind = "int" /\ stats.playCount.n > 0
         THEN MethodData(stats.playCount.n, stats.diggCount)
  ELSE MethodNoData

\* Methods 1 and 3 (lines 258-283, 312-337): the script element is read,
\* parsed as JSON and searched for the item structure
ItemMethod(script) ==
  CASE script.read = "raise" -> MethodRaised
    [] script.read = "null" -> MethodNoData
    [] script.read = "invalid" -> MethodRaised
    [] script.read = "no_item" -> MethodNoData
    [] script.read = "item" -> FromStats(script.stats)

\* Method 2 (lines 286-309): the first entry of ItemModule with a positive
\* playCount; an entry the comparison raises on ends the method
RECURSIVE FirstEntry(_)
FirstEntry(entries) ==
  IF entries = <<>> THEN MethodNoData
  ELSE LET r == FromStats(Head(entries)) IN
       IF r.status = "none" THEN FirstEntry(Tail(entries)) ELSE r

ModuleMethod(script) ==
  CASE script.read = "raise" -> MethodRaised
    [] script.read = "null" -> MethodNoData
    [] script.read = "invalid" -> MethodRaised
    [] script.read = "module" -> FirstEntry(script.entries)

\* lines 354-360: views is the number of the last pattern tried: the first
\* pattern that matches a positive number, or else the last that matches
RECURSIVE PatternViews(_, _)
PatternViews(matches, views) ==
  IF matches = <<>> THEN views
  ELSE IF Head(matches) > 0 THEN Some(Head(matches))
  ELSE PatternViews(Tail(matches), Some(Head(matches)))

\* Method 4 (lines 340-382): html.matches holds, for the patterns that
\* match in the order of the list, the number each one captures
RegexMethod(html) ==
  IF html.read = "raise" THEN MethodRaised
  ELSE LET views == PatternViews(html.matches, None) IN
       IF views # None /\ views[1] > 0 THEN MethodData(views[1], html.diggCount)
       ELSE MethodNoData

\* Method 5 (lines 385-414): the text of the first selector that matches,
\* through parse_view_count
DomMethod(dom) ==
  CASE dom.read = "raise" -> MethodRaised
    [] dom.read = "null" -> MethodNoData
    [] dom.read = "text" ->
         LET views == parse_view_count(dom.text) IN
         IF views # <<>> THEN MethodData(ToInt(views), 0) ELSE MethodNoData

\* the five methods in the order of the code
Methods == 1..5

Method(i, page) ==
  CASE i = 1 -> ItemMethod(page.universal_data)
    [] i = 2 -> ModuleMethod(page.sigi_state)
    [] i = 3 -> ItemMethod(page.next_data)
    [] i = 4 -> RegexMethod(page.html)
    [] i = 5 -> DomMethod(page.dom)

\* faulty variant of DataAfter: a later method that finds data replaces
\* the data of an earlier one
RECURSIVE DataAfterOverwriting(_, _)
DataAfterOverwriting(i, page) ==
  IF i = 0 THEN None
  ELSE IF Method(i, page).status = "data" THEN Method(i, page).data
  ELSE DataAfterOverwriting(i - 1, page)

\* the variable data after method i: each method after the first runs
\* under `if not data` (lines 286, 312, 340, 385)
RECURSIVE DataAfter(_, _)
DataAfter(i, page) ==
  IF i = 0 THEN None
  ELSE IF DataAfter(i - 1, page) # None THEN DataAfter(i - 1, page)
  ELSE Method(i, page).data

\* the methods that ran
MethodsRun(page) == {i \in Methods : DataAfter(i - 1, page) = None}

\* lines 417-434: with data the function logs and returns it; without, it
\* reads the page title for the log and returns None, also when that raises
extract_video_data(page) ==
  LET data == DataAfter(5, page) IN
  [data |-> IF data = None /\ page.title = "raise" THEN None ELSE data,
   ran |-> MethodsRun(page)]

\* The pages of the model.  The methods find different numbers, so that a
\* result shows which method it comes from.
Stats(i) ==
  {[playCount |-> c, diggCount |-> i] : c \in {IntCount(0), IntCount(100 * i), StrCount, NoCount}}

ItemScripts(i) ==
  {[read |-> r, stats |-> [playCount |-> NoCount, diggCount |-> 0]] :
     r \in {"raise", "null", "invalid", "no_item"}}
    \cup {[read |-> "item", stats |-> st] : st \in Stats(i)}

ModuleScripts ==
  {[read |-> r, entries |-> <<>>] : r \in {"raise", "null", "invalid"}}
    \cup {[read |-> "module", entries |-> e] :
            e \in {<<>>} \cup {<<st>> : st \in Stats(2)}
                  \cup {<<[playCount |-> IntCount(0), diggCount |-> 0], st>> : st \in Stats(2)}}

Htmls ==
  {[read |-> "raise", matches |-> <<>>, diggCount |-> 0]}
    \cup {[read |-> "html", matches |-> m, diggCount |-> 4] :
            m \in {<<>>, <<0>>, <<0, 400>>, <<400, 0>>}}

Doms ==
  {[read |-> r, text |-> <<>>] : r \in {"raise", "null"}}
    \cup {[read |-> "text", text |-> t] :
            t \in {<<"5", "0", "0">>, <<"1", ".", "2", "K">>, <<"0">>, <<"N", "/", "A">>}}

Pages ==
  [universal_data : ItemScripts(1), sigi_state : ModuleScripts, next_data : ItemScripts(3),
   html : Htmls, dom : Doms, title : {"ok", "raise"}]

\* extract_video_data is called on a page
ExtractVideoData ==
  /\ arg # None
  /\ value = None
  /\ value' = Some(extract_video_data(arg[1]))
  /\ UNCHANGED <<arg, utc_offset, crawlVars, batchVars, sheetVars, jobVars>>

InitExtract ==
  /\ CrawlIdle
  /\ BatchIdle
  /\ SheetIdle
  /\ JobsIdle
  /\ arg \in {Some(page) : page \in Pages}
  /\ value = None
  /\ utc_offset = 0

NextExtract == ExtractVideoData

SpecExtract == InitExtract /\ [][NextExtract]_vars

\* ------------------------------------------------------------------------
\* Properties of extract_video_data (under SpecExtract)
\* ------------------------------------------------------------------------
\* method i, run on the page on its own, finds a positive view count
Yields(i, page) == Method(i, page).status = "data"

\* C36: the result is the data of the first method, in the order 1 to 5,
\* that finds a positive view count on the page; the methods that ran are
\* that one and those before it; the result is None exactly when none of
\* the five finds one.
C36_FirstYieldingMethodWins ==
  value # None =>
    LET page == arg[1]
        yielding == {i \in Methods : Yields(i, page)}
    IN IF yielding = {}
         THEN value[1].data = None /\ value[1].ran = Methods
       ELSE LET first == CHOOSE i \in yielding : \A j \in yielding : i <= j IN
            /\ value[1].data = Method(first, page).data
            /\ value[1].data[1].views > 0
            /\ value[1].ran = 1..first

\* method 1 raised, method 2 found no positive count, method 3 found one
\* and so would method 4 have
C36_Witness ==
  /\ value # None
  /\ Method(1, arg[1]).status = "raised"
  /\ Method(2, arg[1]).status = "none"
  /\ Yields(3, arg[1])
  /\ Yields(4, arg[1])
  /\ value[1].ran = {1, 2, 3}

\* ------------------------------------------------------------------------
\* The result list across the retry waves (under Spec)
\* ------------------------------------------------------------------------
\* C37: no step changes or removes an entry of the result list that has
\* success = true; a crawl_single call of a retry wave that returns a
\* failed result leaves the list as it is; an entry that changes becomes a
\* successful one.
C37_SuccessfulEntryIsFinal ==
  [][/\ \A i \in 1..Len(results) :
          results[i].success => i <= Len(results') /\ results'[i] = results[i]
     /\ pc = "returned" /\ phase \in {"retry", "firefox"} /\ ~ret_val.success =>
          results' = results
     /\ \A i \in 1..Len(results) :
          i <= Len(results') /\ results'[i] # results[i] => results'[i].success]_vars

\* the run is over: the first URL succeeded in the first pass, the second
\* failed there and again in the retry wave and under Firefox
C37_Witness ==
  /\ pc = "done"
  /\ phase = "firefox"
  /\ Len(results) = 2
  /\ results[1].success
  /\ ~results[2].success
  /\ Len(retry_urls) = 1
  /\ firefox_results = <<>>

\* ------------------------------------------------------------------------
\* From the crawl results to the records (under SpecJob)
\* ------------------------------------------------------------------------
\* the results crawl_batch_sync returned for the link of the i-th record
ProducedFor(i) ==
  {j \in 1..Len(batch_result[1]) : urls[j] = urls[i]}

\* C38 as stated: each record whose link the engine returned a result for
\* is processed with a result returned for that link.
C38_ProducedResultApplied ==
  job_result # None =>
    \A i \in 1..Len(urls) :
      ProducedFor(i) # {} =>
        \E j \in ProducedFor(i) :
          last_records[i] = process_lark_record(JobRecord(urls[i]), batch_result[1][j])

\* ------------------------------------------------------------------------
\* The session handles when crawl_all returns (under Spec)
\* ------------------------------------------------------------------------
\* C39 as stated: when crawl_all has returned, self.context, self.browser
\* and self.playwright are all None.
C39_NoSessionLeftOpen ==
  pc = "done" => ~context /\ ~browser /\ ~playwright

\* ------------------------------------------------------------------------
\* _validate_and_format_publish_date and _convert_timestamp_to_date
\* (sheets_client.py lines 49-131) on texts and numbers.  A publish_date is
\* None, an int or a str, written like a timestamp above.
\* ------------------------------------------------------------------------
\* line 66: re.match(r'^\d{4}-\d{2}-\d{2}$', text); `$` also matches before a
\* newline that ends the text
ReMatchYMD(text) ==
  LET body == IF Len(text) = 11 /\ text[11] = "\n" THEN SubSeq(text, 1, 10) ELSE text IN
  /\ Len(body) = 10
  /\ \A i \in {1, 2, 3, 4, 6, 7, 9, 10} : body[i] \in Digits
  /\ body[5] = "-"
  /\ body[8] = "-"

DaysInMonth(y, m) ==
  IF m \in {4, 6, 9, 11} THEN 30
  ELSE IF m # 2 THEN 31
  ELSE IF y % 4 = 0 /\ (y % 100 # 0 \/ y % 400 = 0) THEN 29
  ELSE 28

\* line 74: publish_date.replace('Z', '+00:00') for a text with at most one
\* Z, at its end; the offset does not change the fields of the datetime
WithoutZ(text) ==
  IF text # <<>> /\ text[Len(text)] = "Z" THEN SubSeq(text, 1, Len(text) - 1) ELSE text

\* datetime.fromisoformat on a text of the shape YYYY-MM-DDThh:mm:ss: the
\* date as <<year, month, day>>, or <<>> where it raises ValueError.  The
\* texts with a T that the model draws have this shape or none that
\* fromisoformat accepts.
FromIsoFormat(text) ==
  IF ~(/\ Len(text) = 19
       /\ \A i \in {1, 2, 3, 4, 6, 7, 9, 10, 12, 13, 15, 16, 18, 19} : text[i] \in Digits
       /\ text[5] = "-" /\ text[8] = "-" /\ text[11] = "T"
       /\ text[14] = ":" /\ text[17] = ":")
    THEN <<>>
  ELSE LET y == DigitsValue(SubSeq(text, 1, 4))
           m == DigitsValue(SubSeq(text, 6, 7))
           d == DigitsValue(SubSeq(text, 9, 10))
       IN IF /\ y >= 1
             /\ m \in 1..12
             /\ d \in 1..DaysInMonth(y, m)
             /\ DigitsValue(SubSeq(text, 12, 13)) < 24
             /\ DigitsValue(SubSeq(text, 15, 16)) < 60
             /\ DigitsValue(SubSeq(text, 18, 19)) < 60
            THEN <<y, m, d>>
          ELSE <<>>

\* line 75: dt.strftime('%Y-%m-%d').  The C library formats %Y; glibc does
\* not pad a year below 1000, other libraries pad it to four digits.
StrftimeOn(date, glibc) ==
  IF glibc /\ date[1] < 1000
    THEN DecimalText(FromInt(date[1])) \o SubSeq(StrftimeYMD(date), 5, 10)
  ELSE StrftimeYMD(date)

\* _convert_timestamp_to_date (lines 94-131) on an int
sheet_convert_timestamp_to_date(timestamp, offset) ==
  IF timestamp.mag = <<>> THEN <<>>
  ELSE IF timestamp.neg THEN <<>>
  ELSE LET dt == LocalDate(ToSeconds(timestamp.mag), offset) IN
       IF dt = <<>> \/ dt[1] > 9999 THEN <<>>
       ELSE IF dt[1] < 2016 \/ dt[1] > 2030 THEN <<>>
       ELSE StrftimeYMD(dt)

\* str.isdigit() on the characters of the model
IsDigitText(text) == text # <<>> /\ \A i \in 1..Len(text) : text[i] \in Digits

\* _validate_and_format_publish_date (lines 49-92): the text written to the
\* Published Date cell
format_publish_date(publish_date, offset, glibc) ==
  CASE publish_date.type = "none" -> <<>>
    [] publish_date.type = "int" -> sheet_convert_timestamp_to_date(publish_date, offset)
    [] publish_date.type = "str" ->
         LET text == publish_date.text IN
         IF text = <<>> THEN <<>>
         ELSE IF ReMatchYMD(text) THEN text
         ELSE IF "T" \in Range(text) /\ FromIsoFormat(WithoutZ(text)) # <<>>
                THEN StrftimeOn(FromIsoFormat(WithoutZ(text)), glibc)
         ELSE IF IsDigitText(text)
                THEN sheet_convert_timestamp_to_date(
                       IntTimestamp(FALSE, NumberOfDigits(text)), offset)
         ELSE <<>>

\* The values tried: the timestamps above, dates as texts, with a newline
\* or a blank after them, ISO datetimes with and without Z, other texts
DatePool ==
  {<<2024, 1, 15>>, <<2024, 13, 45>>, <<2024, 2, 30>>, <<999, 1, 15>>, <<1, 1, 1>>, <<0, 1, 1>>}

ClockText == <<"T", "1", "0", ":", "0", "0", ":", "0", "0">>

DateTexts ==
  UNION {{StrftimeYMD(d), StrftimeYMD(d) \o <<"\n">>, StrftimeYMD(d) \o <<" ">>,
          StrftimeYMD(d) \o <<"T">>, StrftimeYMD(d) \o ClockText,
          StrftimeYMD(d) \o ClockText \o <<"Z">>} : d \in DatePool}
    \cup {<<"T">>, <<"N", "/", "A">>, <<"1", "5", "/", "0", "1", "/", "2", "0", "2", "4">>}

PublishDates == Timestamps \cup {StrTimestamp(t) : t \in DateTexts}

\* _validate_and_format_publish_date is called on a record's publish_date
FormatPublishDate ==
  /\ arg # None
  /\ value = None
  /\ value' = Some(format_publish_date(arg[1].publish_date, utc_offset, arg[1].glibc))
  /\ UNCHANGED <<arg, utc_offset, crawlVars, batchVars, sheetVars, jobVars>>

InitPublishDate ==
  /\ CrawlIdle
  /\ BatchIdle
  /\ SheetIdle
  /\ JobsIdle
  /\ arg \in {Some([publish_date |-> d, glibc |-> g]) : d \in PublishDates, g \in BOOLEAN}
  /\ value = None
  /\ utc_offset \in UtcOffsets

NextPublishDate == FormatPublishDate

SpecPublishDate == InitPublishDate /\ [][NextPublishDate]_vars

\* a text of the form YYYY-MM-DD
IsYMDForm(text) ==
  /\ Len(text) = 10
  /\ \A i \in {1, 2, 3, 4, 6, 7, 9, 10} : text[i] \in Digits
  /\ text[5] = "-"
  /\ text[8] = "-"

\* C40 as stated: the Published Date text written for a record is empty or
\* of the form YYYY-MM-DD.
C40_WrittenDateIsEmptyOrYMD ==
  value # None => value[1] = <<>> \/ IsYMDForm(value[1])

====
